---- MODULE Spec2Model ----
(***************************************************************************)
(* Model of github.com/kuwa72/matcher: the query lexer and grammar, the    *)
(* regex literal capture, the matcher facade and the typed evaluator.      *)
(*                                                                         *)
(* Go strings are sequences of one-character strings, compared bytewise    *)
(* through Ord. A nil pointer is the empty tuple, a non-nil pointer the    *)
(* one-element tuple of its target. An error is the chain of its messages, *)
(* outermost first (fmt.Errorf with %w prepends a message); the nil error  *)
(* is the empty chain.                                                     *)
(***************************************************************************)
EXTENDS Integers, Sequences, FiniteSets, TLC

\* ---------------------------------------------------------------- bounds
\* Numeric field values and number literals range over 0..MaxNum.
MaxNum == 2
\* Queries are wrapped in 0..MaxNest redundant pairs of parentheses.
MaxNest == 1

\* ------------------------------------------------------------ Go strings
\* The printable ASCII characters in byte order, from 32 (space) to 126; the
\* entry "\\x60" stands for byte 96, which no query or field of the model uses.
Ascii ==
  << " ", "!", "\"", "#", "$", "%", "&", "'", "(", ")", "*", "+", ",", "-", ".", "/",
     "0", "1", "2", "3", "4", "5", "6", "7", "8", "9", ":", ";", "<", "=", ">", "?",
     "@", "A", "B", "C", "D", "E", "F", "G", "H", "I", "J", "K", "L", "M", "N", "O",
     "P", "Q", "R", "S", "T", "U", "V", "W", "X", "Y", "Z", "[", "\\", "]", "^", "_",
     "\\x60", "a", "b", "c", "d", "e", "f", "g", "h", "i", "j", "k", "l", "m", "n", "o",
     "p", "q", "r", "s", "t", "u", "v", "w", "x", "y", "z", "{", "|", "}", "~" >>

Chars == {Ascii[i] : i \in 1..Len(Ascii)}

OrdTable == [c \in Chars |-> 31 + (CHOOSE i \in 1..Len(Ascii) : Ascii[i] = c)]

\* The byte value of a character.
Ord(c) == OrdTable[c]

Digits == {"0", "1", "2", "3", "4", "5", "6", "7", "8", "9"}
Lower == {Ascii[i] : i \in 66..91}
Upper == {Ascii[i] : i \in 34..59}
Letters == Lower \cup Upper

\* strings.ToLower and strings.ToUpper on one ASCII character.
ToLower(c) == IF c \in Upper THEN Ascii[Ord(c) - 31 + 32] ELSE c

ToUpper(c) == IF c \in Lower THEN Ascii[Ord(c) - 31 - 32] ELSE c

\* The Go comparison s < t on strings: bytewise lexicographic order.
RECURSIVE StrLess(_, _)
StrLess(s, t) ==
  IF t = <<>> THEN FALSE
  ELSE IF s = <<>> THEN TRUE
  ELSE IF Ord(Head(s)) # Ord(Head(t)) THEN Ord(Head(s)) < Ord(Head(t))
  ELSE StrLess(Tail(s), Tail(t))

\* strings.HasPrefix(s, p).
HasPrefix(s, p) == Len(s) >= Len(p) /\ SubSeq(s, 1, Len(p)) = p

\* The decimal digits of a natural number.
RECURSIVE Itoa(_)
Itoa(n) ==
  IF n < 10 THEN <<Ascii[17 + n]>>
  ELSE Itoa(n \div 10) \o <<Ascii[17 + (n % 10)]>>

\* A format with no more digits than the number needs (%v).
SprintfV(f) == IF f < 0 THEN <<"-">> \o Itoa(0 - f) ELSE Itoa(f)

\* fmt.Sprintf("%f", f) for an integral float: the digits and six decimals.
SprintfF(f) ==
  (IF f < 0 THEN <<"-">> \o Itoa(0 - f) ELSE Itoa(f))
    \o <<".", "0", "0", "0", "0", "0", "0">>

\* strconv.ParseBool: the accepted spellings of true and false.
ParseBoolTrue ==
  { <<"1">>, <<"t">>, <<"T">>, <<"T", "R", "U", "E">>, <<"t", "r", "u", "e">>,
    <<"T", "r", "u", "e">> }
ParseBoolFalse ==
  { <<"0">>, <<"f">>, <<"F">>, <<"F", "A", "L", "S", "E">>,
    <<"f", "a", "l", "s", "e">>, <<"F", "a", "l", "s", "e">> }

\* ------------------------------------------------------ pointers, errors
Nil == <<>>
Ptr(v) == <<v>>
Deref(p) == p[1]

\* The nil error, fmt.Errorf without %w, and fmt.Errorf with %w.
NoError == <<>>
Errorf(msg) == <<msg>>
Wrap(msg, err) == <<msg>> \o err

\* The exported sentinel, and errors.Is: the target is in the chain.
ErrInvalidOperator == Errorf("invalid operator")
ErrorsIs(e, target) == \E i \in 1..Len(e) : SubSeq(e, i, Len(e)) = target

\* What a call does: it returns the pair (b, err), or it panics.
Return(b, err) == [b |-> b, err |-> err, panic |-> FALSE]
Panic == [b |-> FALSE, err |-> NoError, panic |-> TRUE]

\* ------------------------------------------------- values held by a field
\* The dynamic type and value of an interface{} stored in a Context.
GoValue(kind, num, str, bool) == [kind |-> kind, num |-> num, str |-> str, bool |-> bool]
GoNum(kind, n) == GoValue(kind, n, <<>>, FALSE)
GoString(s) == GoValue("string", 0, s, FALSE)
GoBool(b) == GoValue("bool", 0, <<>>, b)
GoNil == GoValue("nil", 0, <<>>, FALSE)
GoSlice == GoValue("slice", 0, <<>>, FALSE)

FloatKinds == {"float32", "float64"}
SignedKinds == {"int", "int8", "int16", "int32", "int64"}
UnsignedKinds == {"uint", "uint8", "uint16", "uint32", "uint64"}
IntKinds == SignedKinds \cup UnsignedKinds
NumKinds == FloatKinds \cup IntKinds

\* x.(T) on a value whose dynamic type is kind: it panics unless kind is T.
TypeAssert(x, T) == x.kind = T

\* ----------------------------------------------------------------- regexp
\* The fragment of RE2 syntax the model compiles: literal characters, ".",
\* an escaped punctuation character, the postfix operators * + ?, "^" as the
\* the counted repetition {n}, "^" as the first and "$" as the last
\* character. Groups, classes and alternation are outside the fragment and
\* no pattern of the model reaches the compiler with them.
Quantifiers == {"*", "+", "?"}

RegexItem(c, any, q) == [c |-> c, any |-> any, q |-> q]

\* The characters that stand for themselves wherever they are.
PlainChars == Chars \ ({"\\", "{"} \cup Quantifiers)

\* The length of the longest prefix of s whose characters are all in set.
Run(s, set) ==
  LET out == {i \in 1..Len(s) : s[i] \notin set}
  IN  IF out = {} THEN Len(s)
      ELSE (CHOOSE i \in out : \A j \in 1..(i - 1) : j \notin out) - 1

Drop(s, n) == SubSeq(s, n + 1, Len(s))

\* The decimal number written by a string of digits.
RECURSIVE Atoi(_)
Atoi(s) ==
  IF s = <<>> THEN 0 ELSE 10 * Atoi(SubSeq(s, 1, Len(s) - 1)) + (Ord(s[Len(s)]) - 48)

\* The length of a counted repetition {n} at the head of s, or 0.
RepeatLen(s) ==
  IF s # <<>> /\ Head(s) = "{" /\ Run(Tail(s), Digits) > 0
     /\ Len(s) >= Run(Tail(s), Digits) + 2 /\ s[Run(Tail(s), Digits) + 2] = "}"
  THEN Run(Tail(s), Digits) + 2
  ELSE 0

\* n copies of an item.
Copies(item, n) == [i \in 1..n |-> item]

\* The items of a pattern: a run of plain characters at once, then one
\* atom with its quantifier; a counted repetition x{n} is n copies of x.
RECURSIVE RegexItems(_)
LiteralRun(p, n, rest) ==
  [ok |-> rest.ok,
   items |-> [i \in 1..n |-> RegexItem(p[i], p[i] = ".", "1")] \o rest.items]

Atom(c, any, after, rest) ==
  [ok |-> rest.ok,
   items |->
     (IF RepeatLen(after) > 0
      THEN Copies(RegexItem(c, any, "1"), Atoi(SubSeq(after, 2, RepeatLen(after) - 1)))
      ELSE IF after # <<>> /\ Head(after) \in Quantifiers
      THEN <<RegexItem(c, any, Head(after))>>
      ELSE <<RegexItem(c, any, "1")>>) \o rest.items]

AfterAtom(after) ==
  IF RepeatLen(after) > 0 THEN Drop(after, RepeatLen(after))
  ELSE IF after # <<>> /\ Head(after) \in Quantifiers THEN Tail(after)
  ELSE after

LiteralLen(p, n) ==
  IF n < Len(p) /\ p[n + 1] \in Quantifiers \cup {"{"} THEN n - 1 ELSE n

RegexItems(p) ==
  IF p = <<>> THEN [ok |-> TRUE, items |-> <<>>]
  ELSE IF LiteralLen(p, Run(p, PlainChars)) > 0
  THEN LiteralRun(p, LiteralLen(p, Run(p, PlainChars)),
                  RegexItems(Drop(p, LiteralLen(p, Run(p, PlainChars)))))
  ELSE IF Head(p) \in Quantifiers THEN [ok |-> FALSE, items |-> <<>>]
  ELSE IF Head(p) = "\\" /\ Len(p) = 1 THEN [ok |-> FALSE, items |-> <<>>]
  ELSE IF Head(p) = "\\"
  THEN Atom(p[2], FALSE, Drop(p, 2), RegexItems(AfterAtom(Drop(p, 2))))
  ELSE Atom(Head(p), Head(p) = ".", Tail(p), RegexItems(AfterAtom(Tail(p))))

\* regexp.Compile: the compiled program, or an error.
RegexpCompile(pattern) ==
  LET bol == pattern # <<>> /\ Head(pattern) = "^"
      p1 == IF bol THEN Tail(pattern) ELSE pattern
      eol == p1 # <<>> /\ p1[Len(p1)] = "$"
               /\ (Len(p1) = 1 \/ p1[Len(p1) - 1] # "\\")
      p2 == IF eol THEN SubSeq(p1, 1, Len(p1) - 1) ELSE p1
      parsed == RegexItems(p2)
  IN  IF parsed.ok
      THEN [re |-> Ptr([bol |-> bol, eol |-> eol, items |-> parsed.items]),
            err |-> NoError]
      ELSE [re |-> Nil, err |-> Errorf("error parsing regexp")]

ItemMatches(item, c) == item.any \/ item.c = c

RECURSIVE MatchHere(_, _, _, _)
MatchHere(re, i, s, j) ==
  IF i > Len(re.items) THEN (re.eol => j = Len(s) + 1)
  ELSE
    LET item == re.items[i]
        one == j <= Len(s) /\ ItemMatches(item, s[j])
    IN  CASE item.q = "1" -> one /\ MatchHere(re, i + 1, s, j + 1)
          [] item.q = "*" -> MatchHere(re, i + 1, s, j)
                               \/ (one /\ MatchHere(re, i, s, j + 1))
          [] item.q = "+" -> one /\ (MatchHere(re, i + 1, s, j + 1)
                                       \/ MatchHere(re, i, s, j + 1))
          [] item.q = "?" -> MatchHere(re, i + 1, s, j)
                               \/ (one /\ MatchHere(re, i + 1, s, j + 1))

\* (*regexp.Regexp).MatchString: the pattern matches somewhere in s.
MatchString(re, s) ==
  IF re.bol THEN MatchHere(re, 1, s, 1)
  ELSE \E j \in 1..(Len(s) + 1) : MatchHere(re, 1, s, j)

\* ------------------------------------------------------ expression tree
\* Value, Compare, Predicate, Condition, OrCondition and Expression are
\* records with the fields of the Go structs.
Value(Float, String, Regex, Boolean, Null) ==
  [Float |-> Float, String |-> String, Regex |-> Regex, Boolean |-> Boolean,
   Null |-> Null]
RegexVal(Pattern, Regexp) == [Pattern |-> Pattern, Regexp |-> Regexp]
Compare(Operator, v) == [Operator |-> Operator, Value |-> v]
Predicate(Symbol, cmp) == [Symbol |-> Symbol, Compare |-> cmp]
Condition(Nested, pred) == [Nested |-> Nested, Predicate |-> pred]
OrCondition(And) == [And |-> And]
Expression(Or) == [Or |-> Or]

\* -------------------------------------------------------------- evaluator
\* A result also carries seen, the symbols looked up in the record so far,
\* in order: a history of the walk, not a value the program returns.
Seen(sym, r) == [b |-> r.b, err |-> r.err, panic |-> r.panic, seen |-> <<sym>>]
After(seen, r) == [b |-> r.b, err |-> r.err, panic |-> r.panic, seen |-> seen \o r.seen]
Unseen(r) == [b |-> r.b, err |-> r.err, panic |-> r.panic, seen |-> <<>>]

\* A fall-through that reports the comparison as true next to its error.
FallThroughTrue(x) == Return(TRUE, Errorf("failed to complete comparison"))

\* The statement after the operator switch, reached when a case ends
\* without returning.
FallThrough(x) == Return(FALSE, Errorf("failed to complete comparison"))

\* case "=" with a number literal f.
EvalEqFloat(f, x) ==
  CASE x.kind \in FloatKinds ->
         IF TypeAssert(x, "float64") THEN Return(x.num = f, NoError) ELSE Panic
    [] x.kind \in IntKinds ->
         IF TypeAssert(x, "int") THEN Return(x.num = f, NoError) ELSE Panic
    [] x.kind = "string" -> Return(x.str = SprintfF(f), NoError)
    [] x.kind = "bool" -> Return((x.bool /\ f # 0) \/ (~x.bool /\ f = 0), NoError)
    [] OTHER -> FallThrough(x)

\* case "=" with a string literal s: ctxVal == *v.String compares an
\* interface with a string, false when the dynamic type is not string.
EvalEqString(s, x) == Return(x.kind = "string" /\ x.str = s, NoError)

\* case "=" with a regex literal.
EvalEqRegexLenient(re, x) ==
  IF ~TypeAssert(x, "string") THEN Return(FALSE, NoError)
  ELSE Return(MatchString(Deref(re.Regexp), x.str), NoError)

EvalEqRegex(re, x) ==
  IF ~TypeAssert(x, "string")
  THEN Return(FALSE, Errorf("cannot apply regex to non-string value"))
  ELSE Return(MatchString(Deref(re.Regexp), x.str), NoError)

\* case "=" with a boolean literal bv.
EvalEqBoolean(bv, x) ==
  CASE x.kind = "int" -> Return((x.num = 0 /\ ~bv) \/ (x.num # 0 /\ bv), NoError)
    [] x.kind = "bool" -> Return(x.bool = bv, NoError)
    [] x.kind = "string" ->
         IF x.str \notin ParseBoolTrue \cup ParseBoolFalse
         THEN Return(FALSE, Wrap("is not bool value", Errorf("invalid syntax")))
         ELSE Return((x.str \in ParseBoolTrue) = bv, NoError)
    [] OTHER -> FallThrough(x)

\* A case "=" without the default of its switch on the literal.
EvalEqNoDefault(v, x) ==
  CASE v.Float # Nil -> EvalEqFloat(Deref(v.Float), x)
    [] v.String # Nil -> EvalEqString(Deref(v.String), x)
    [] v.Regex # Nil -> EvalEqRegex(Deref(v.Regex), x)
    [] v.Boolean # Nil -> EvalEqBoolean(Deref(v.Boolean), x)
    [] OTHER -> FallThrough(x)

\* case "=".
EvalEq(v, x) ==
  CASE v.Float # Nil -> EvalEqFloat(Deref(v.Float), x)
    [] v.String # Nil -> EvalEqString(Deref(v.String), x)
    [] v.Regex # Nil -> EvalEqRegex(Deref(v.Regex), x)
    [] v.Boolean # Nil -> EvalEqBoolean(Deref(v.Boolean), x)
    [] OTHER -> Return(FALSE, Errorf("unknown value type"))

\* case "<>", "!=" with a number literal f.
EvalNeFloat(f, x) ==
  CASE x.kind \in FloatKinds ->
         IF TypeAssert(x, "float64") THEN Return(x.num # f, NoError) ELSE Panic
    [] x.kind \in IntKinds ->
         IF TypeAssert(x, "int") THEN Return(x.num # f, NoError) ELSE Panic
    [] x.kind = "string" -> Return(x.str # SprintfF(f), NoError)
    [] x.kind = "bool" -> Return(~((x.bool /\ f # 0) \/ (~x.bool /\ f = 0)), NoError)
    [] OTHER -> FallThrough(x)

\* case "<>", "!=" with a string literal s.
EvalNeString(s, x) == Return(~(x.kind = "string" /\ x.str = s), NoError)

\* case "<>", "!=" with a regex literal.
EvalNeRegexNotNegated(re, x) ==
  IF ~TypeAssert(x, "string")
  THEN Return(FALSE, Errorf("cannot apply regex to non-string value"))
  ELSE Return(MatchString(Deref(re.Regexp), x.str), NoError)

EvalNeRegex(re, x) ==
  IF ~TypeAssert(x, "string")
  THEN Return(FALSE, Errorf("cannot apply regex to non-string value"))
  ELSE Return(~MatchString(Deref(re.Regexp), x.str), NoError)

\* case "<>", "!=" with a boolean literal bv.
EvalNeBoolean(bv, x) ==
  CASE x.kind = "int" -> Return(~((x.num = 0 /\ ~bv) \/ (x.num # 0 /\ bv)), NoError)
    [] x.kind = "bool" -> Return(x.bool # bv, NoError)
    [] x.kind = "string" ->
         IF x.str \notin ParseBoolTrue \cup ParseBoolFalse
         THEN Return(FALSE, Wrap("is not bool value", Errorf("invalid syntax")))
         ELSE Return((x.str \in ParseBoolTrue) # bv, NoError)
    [] OTHER -> FallThrough(x)

\* case "<>", "!=".
EvalNe(v, x) ==
  CASE v.Float # Nil -> EvalNeFloat(Deref(v.Float), x)
    [] v.String # Nil -> EvalNeString(Deref(v.String), x)
    [] v.Regex # Nil -> EvalNeRegex(Deref(v.Regex), x)
    [] v.Boolean # Nil -> EvalNeBoolean(Deref(v.Boolean), x)
    [] OTHER -> Return(FALSE, Errorf("unknown value type"))

\* The relation an ordering operator computes, on numbers and on strings.
NumRelStrict(o, m, n) ==
  CASE o = ">" -> m > n
    [] o = ">=" -> m > n
    [] o = "<" -> m < n
    [] o = "<=" -> m < n

NumRel(o, m, n) ==
  CASE o = ">" -> m > n
    [] o = ">=" -> m >= n
    [] o = "<" -> m < n
    [] o = "<=" -> m <= n

StrRel(o, s, t) ==
  CASE o = ">" -> StrLess(t, s)
    [] o = ">=" -> ~StrLess(s, t)
    [] o = "<" -> StrLess(s, t)
    [] o = "<=" -> ~StrLess(t, s)

\* case ">", ">=", "<", "<=" with a number literal f.
EvalOrderFloat(o, f, x) ==
  CASE x.kind \in FloatKinds ->
         IF TypeAssert(x, "float64") THEN Return(NumRel(o, x.num, f), NoError) ELSE Panic
    [] x.kind \in IntKinds ->
         IF TypeAssert(x, "int64") THEN Return(NumRel(o, x.num, f), NoError) ELSE Panic
    [] x.kind = "string" -> Return(StrRel(o, x.str, SprintfF(f)), NoError)
    [] x.kind = "bool" ->
         Return(FALSE, Errorf("boolean did not compare by greater/less then"))
    [] OTHER -> FallThrough(x)

\* case ">", ">=", "<", "<=" with a string literal s: ctxVal.(string).
EvalOrderString(o, s, x) ==
  IF TypeAssert(x, "string") THEN Return(StrRel(o, x.str, s), NoError) ELSE Panic

\* An ordering case that answers false where it has no comparison.
EvalOrderSilent(o, v, x) ==
  CASE v.Float # Nil ->
         IF x.kind = "bool" THEN Return(FALSE, NoError) ELSE EvalOrderFloat(o, Deref(v.Float), x)
    [] v.String # Nil -> EvalOrderString(o, Deref(v.String), x)
    [] OTHER -> Return(FALSE, NoError)

\* case ">", ">=", "<", "<=": four cases alike but for the relation.
EvalOrder(o, v, x) ==
  CASE v.Float # Nil -> EvalOrderFloat(o, Deref(v.Float), x)
    [] v.String # Nil -> EvalOrderString(o, Deref(v.String), x)
    [] v.Regex # Nil -> Return(FALSE, Errorf("cannot use operator with regex pattern"))
    [] v.Boolean # Nil ->
         Return(FALSE, Errorf("boolean did not compare by greater/less then"))
    [] OTHER -> Return(FALSE, Errorf("unknown value type"))

\* Predicate.Eval with the lookup's ok ignored: a missing field is compared
\* as a nil value.
PredicateEvalNoLookupCheck(p, ctx) ==
  LET sym == Deref(p).Symbol
      cmp == Deref(Deref(p).Compare)
      x == IF sym \in DOMAIN ctx THEN ctx[sym] ELSE GoNil
  IN  Seen(sym,
        CASE cmp.Operator = "=" -> EvalEq(Deref(cmp.Value), x)
          [] cmp.Operator \in {"<>", "!="} -> EvalNe(Deref(cmp.Value), x)
          [] OTHER -> EvalOrder(cmp.Operator, Deref(cmp.Value), x))

\* Predicate.Eval; p is a *Predicate, ctx a Context (a function from the
\* names of the fields it holds).
PredicateEval(p, ctx) ==
  IF p = Nil \/ Deref(p).Compare = Nil
  THEN Unseen(Return(FALSE, Errorf("invalid predicate")))
  ELSE
    LET sym == Deref(p).Symbol
        cmp == Deref(Deref(p).Compare)
        o == cmp.Operator
        v == Deref(cmp.Value)
    IN  IF sym \notin DOMAIN ctx THEN Seen(sym, Return(FALSE, NoError))
        ELSE Seen(sym,
               CASE o = "=" -> EvalEq(v, ctx[sym])
                 [] o \in {"<>", "!="} -> EvalNe(v, ctx[sym])
                 [] o \in {">", ">=", "<", "<="} -> EvalOrder(o, v, ctx[sym])
                 [] OTHER -> Return(FALSE, Errorf("unknown operator")))

RECURSIVE ExpressionEval(_, _)
RECURSIVE OrConditionEval(_, _)

\* Condition.Eval with a group reduced to its first OR-term.
ConditionEvalFirstTerm(x, ctx) ==
  IF Deref(x).Nested # Nil THEN OrConditionEval(Deref(Deref(x).Nested).Or[1], ctx)
  ELSE PredicateEval(Deref(x).Predicate, ctx)

\* Condition.Eval.
ConditionEval(x, ctx) ==
  IF x = Nil THEN Unseen(Return(FALSE, Errorf("invalid condition")))
  ELSE IF Deref(x).Nested # Nil THEN ExpressionEval(Deref(x).Nested, ctx)
  ELSE IF Deref(x).Predicate = Nil
  THEN Unseen(Return(FALSE, Errorf("invalid predicate")))
  ELSE PredicateEval(Deref(x).Predicate, ctx)

\* The AND loop that evaluates every condition before it decides.
RECURSIVE AndLoopEager(_, _, _)
AndLoopEager(And, i, ctx) ==
  IF i > Len(And) THEN Unseen(Return(TRUE, NoError))
  ELSE
    LET r == ConditionEval(And[i], ctx)
        rest == AndLoopEager(And, i + 1, ctx)
    IN  IF r.panic THEN r
        ELSE IF r.err # NoError
        THEN After(r.seen, Unseen(Return(FALSE, Wrap("evaluating AND condition", r.err))))
        ELSE IF rest.panic \/ rest.err # NoError THEN After(r.seen, rest)
        ELSE After(r.seen, [rest EXCEPT !.b = r.b /\ rest.b])

\* The loop of OrCondition.Eval from its i-th condition on.
RECURSIVE AndLoop(_, _, _)
AndLoop(And, i, ctx) ==
  IF i > Len(And) THEN Unseen(Return(TRUE, NoError))
  ELSE
    LET r == ConditionEval(And[i], ctx) IN
    IF r.panic THEN r
    ELSE IF r.err # NoError
    THEN After(r.seen, Unseen(Return(FALSE, Wrap("evaluating AND condition", r.err))))
    ELSE IF ~r.b THEN After(r.seen, Unseen(Return(FALSE, NoError)))
    ELSE After(r.seen, AndLoop(And, i + 1, ctx))

\* OrCondition.Eval.
OrConditionEval(e, ctx) ==
  IF e = Nil \/ Len(Deref(e).And) = 0 THEN Unseen(Return(FALSE, NoError))
  ELSE AndLoop(Deref(e).And, 1, ctx)

\* The OR loop with the test of the AND loop: it stops at the first false.
RECURSIVE OrLoopAsAnd(_, _, _)
OrLoopAsAnd(Or, i, ctx) ==
  IF i > Len(Or) THEN Unseen(Return(TRUE, NoError))
  ELSE
    LET r == OrConditionEval(Or[i], ctx) IN
    IF r.panic THEN r
    ELSE IF r.err # NoError
    THEN After(r.seen, Unseen(Return(FALSE, Wrap("evaluating OR condition", r.err))))
    ELSE IF ~r.b THEN After(r.seen, Unseen(Return(FALSE, NoError)))
    ELSE After(r.seen, OrLoopAsAnd(Or, i + 1, ctx))

\* The OR loop that evaluates every term before it decides.
RECURSIVE OrLoopEager(_, _, _)
OrLoopEager(Or, i, ctx) ==
  IF i > Len(Or) THEN Unseen(Return(FALSE, NoError))
  ELSE
    LET r == OrConditionEval(Or[i], ctx)
        rest == OrLoopEager(Or, i + 1, ctx)
    IN  IF r.panic THEN r
        ELSE IF r.err # NoError
        THEN After(r.seen, Unseen(Return(FALSE, Wrap("evaluating OR condition", r.err))))
        ELSE IF rest.panic \/ rest.err # NoError THEN After(r.seen, rest)
        ELSE After(r.seen, [rest EXCEPT !.b = r.b \/ rest.b])

\* The OR loop that skips a term that fails instead of returning its error.
RECURSIVE OrLoopFailSoft(_, _, _)
OrLoopFailSoft(Or, i, ctx) ==
  IF i > Len(Or) THEN Unseen(Return(FALSE, NoError))
  ELSE
    LET r == OrConditionEval(Or[i], ctx) IN
    IF r.panic THEN r
    ELSE IF r.err = NoError /\ r.b THEN After(r.seen, Unseen(Return(TRUE, NoError)))
    ELSE After(r.seen, OrLoopFailSoft(Or, i + 1, ctx))

\* The loop of Expression.Eval from its i-th term on.
RECURSIVE OrLoop(_, _, _)
OrLoop(Or, i, ctx) ==
  IF i > Len(Or) THEN Unseen(Return(FALSE, NoError))
  ELSE
    LET r == OrConditionEval(Or[i], ctx) IN
    IF r.panic THEN r
    ELSE IF r.err # NoError
    THEN After(r.seen, Unseen(Return(FALSE, Wrap("evaluating OR condition", r.err))))
    ELSE IF r.b THEN After(r.seen, Unseen(Return(TRUE, NoError)))
    ELSE After(r.seen, OrLoop(Or, i + 1, ctx))

\* Expression.Eval.
ExpressionEval(e, ctx) ==
  IF e = Nil \/ Len(Deref(e).Or) = 0 THEN Unseen(Return(FALSE, NoError))
  ELSE OrLoop(Deref(e).Or, 1, ctx)

\* ------------------------------------------------------------------ lexer
\* A token is its rule name and its text. The rules of NewParser are tried
\* in order at the current position and the first that matches wins; each
\* operator below is the length of a rule's match at the head of s, or 0.
Token(type, value) == [type |-> type, value |-> value]

RECURSIVE UpperStr(_)
UpperStr(s) == IF s = <<>> THEN <<>> ELSE <<ToUpper(Head(s))>> \o UpperStr(Tail(s))

\* strings.EqualFold on ASCII text.
EqualFold(s, t) == UpperStr(s) = UpperStr(t)

\* The alternatives of the Keyword rule (?i)TRUE|FALSE|AND|OR|NULL, in order.
Keywords ==
  << <<"T", "R", "U", "E">>, <<"F", "A", "L", "S", "E">>, <<"A", "N", "D">>,
     <<"O", "R">>, <<"N", "U", "L", "L">> >>

MatchKeyword(s) ==
  LET hits == {k \in 1..Len(Keywords) :
                 Len(s) >= Len(Keywords[k])
                 /\ EqualFold(SubSeq(s, 1, Len(Keywords[k])), Keywords[k])}
  IN  IF hits = {} THEN 0
      ELSE Len(Keywords[CHOOSE k \in hits : \A h \in hits : k <= h])

\* [a-zA-Z_][a-zA-Z0-9_]*
MatchIdent(s) ==
  IF s # <<>> /\ Head(s) \in Letters \cup {"_"}
  THEN 1 + Run(Tail(s), Letters \cup Digits \cup {"_"})
  ELSE 0

\* [-+]?\d*\.?\d+ ; the exponent part ([eE][-+]?\d+)? is not modelled, no
\* number of the model is written with one.
MatchFloat(s) ==
  LET sign == IF s # <<>> /\ Head(s) \in {"-", "+"} THEN 1 ELSE 0
      int == Run(Drop(s, sign), Digits)
      afterInt == Drop(s, sign + int)
      frac == IF afterInt # <<>> /\ Head(afterInt) = "."
              THEN Run(Tail(afterInt), Digits) ELSE 0
  IN  IF frac > 0 THEN sign + int + 1 + frac
      ELSE IF int > 0 THEN sign + int
      ELSE 0

\* '[^']*'|"[^"]*"
MatchQuoted(s) ==
  IF s # <<>> /\ Head(s) \in {"'", "\""}
  THEN LET body == Run(Tail(s), Chars \ {Head(s)})
       IN  IF Len(s) >= body + 2 THEN body + 2 ELSE 0
  ELSE 0

\* The length of the longest prefix of s matching [^/\\]*(\\.[^/\\]*)*
RECURSIVE RegexBody(_)
RegexBody(s) ==
  LET plain == Run(s, Chars \ {"/", "\\"})
      rest == Drop(s, plain)
  IN  IF Len(rest) >= 2 /\ Head(rest) = "\\"
      THEN plain + 2 + RegexBody(Drop(rest, 2))
      ELSE plain

\* /[^/\\]*(\\.[^/\\]*)*/
MatchRegex(s) ==
  IF s # <<>> /\ Head(s) = "/"
  THEN LET body == RegexBody(Tail(s))
       IN  IF Len(s) >= body + 2 /\ s[body + 2] = "/" THEN body + 2 ELSE 0
  ELSE 0

\* <>|!=|<=|>=|[-+*/%,.()=<>]
MatchOperators(s) ==
  IF Len(s) >= 2 /\ SubSeq(s, 1, 2) \in {<<"<", ">">>, <<"!", "=">>, <<"<", "=">>, <<">", "=">>}
  THEN 2
  ELSE IF s # <<>> /\ Head(s) \in {"-", "+", "*", "/", "%", ",", ".", "(", ")", "=", "<", ">"}
  THEN 1
  ELSE 0

\* \s+
MatchWhitespace(s) == Run(s, {" "})

\* participle.Unquote("String"): the text between the quotes.
Unquote(s) == SubSeq(s, 2, Len(s) - 1)

\* The token stream of a query, whitespace elided, or a lex error.
RECURSIVE Lex(_)
Lex(s) ==
  IF s = <<>> THEN [ok |-> TRUE, tokens |-> <<>>]
  ELSE
    LET kw == MatchKeyword(s)
        id == MatchIdent(s)
        fl == MatchFloat(s)
        st == MatchQuoted(s)
        re == MatchRegex(s)
        op == MatchOperators(s)
        ws == MatchWhitespace(s)
        n == CASE kw > 0 -> kw [] id > 0 -> id [] fl > 0 -> fl [] st > 0 -> st
               [] re > 0 -> re [] op > 0 -> op [] ws > 0 -> ws [] OTHER -> 0
        type == CASE kw > 0 -> "Keyword" [] id > 0 -> "Ident" [] fl > 0 -> "Float"
                  [] st > 0 -> "String" [] re > 0 -> "Regex" [] op > 0 -> "Operators"
                  [] OTHER -> "whitespace"
        text == SubSeq(s, 1, n)
        rest == Lex(Drop(s, n))
    IN  IF n = 0 THEN [ok |-> FALSE, tokens |-> <<>>]
        ELSE IF type = "whitespace" THEN rest
        ELSE [ok |-> rest.ok,
              tokens |-> <<Token(type, IF type = "String" THEN Unquote(text) ELSE text)>>
                           \o rest.tokens]

\* ---------------------------------------------------- regex literal capture
MaxRegexPatternLength == 1000
MaxRegexComplexity == 20

\* A Capture that keeps the pattern as it is written.
UnescapeNothing(s) == s

\* strings.ReplaceAll(s, "\\/", "/"): every backslash that a slash follows is
\* dropped (the two characters differ, so no two occurrences overlap).
UnescapeSlash(s) ==
  LET at == SelectSeq([i \in 1..Len(s) |-> i],
                      LAMBDA i : ~(s[i] = "\\" /\ i < Len(s) /\ s[i + 1] = "/"))
  IN  [k \in 1..Len(at) |-> s[at[k]]]

\* strings.Count(s, c) for a one-character c.
Count(s, c) == Cardinality({i \in 1..Len(s) : s[i] = c})

Complexity(pattern) ==
  Count(pattern, "*") + Count(pattern, "+") + Count(pattern, "{")
    + Count(pattern, "?") + Count(pattern, "|")

\* The length check, and the check made on the raw text of the literal.
TooLongInclusive(pattern) == Len(pattern) >= MaxRegexPatternLength

TooLong(pattern) == Len(pattern) > MaxRegexPatternLength

\* The complexity check, and the check with "}" counted as well.
TooComplexWithBraces(pattern) ==
  Complexity(pattern) + Count(pattern, "}") > MaxRegexComplexity

TooComplex(pattern) == Complexity(pattern) > MaxRegexComplexity

\* RegexVal.Capture on the text of a Regex token. timedOut: the 100ms
\* deadline is delivered by the select before the worker's result is.
RegexCapture(text, timedOut) ==
  IF Len(text) < 3
  THEN [r |-> RegexVal(<<>>, Nil), err |-> Errorf("invalid regex pattern")]
  ELSE
    LET pattern == UnescapeSlash(SubSeq(text, 2, Len(text) - 1))
        result == RegexpCompile(pattern)
    IN  IF TooLong(pattern)
        THEN [r |-> RegexVal(<<>>, Nil), err |-> Errorf("regex pattern too long")]
        ELSE IF TooComplex(pattern)
        THEN [r |-> RegexVal(<<>>, Nil), err |-> Errorf("regex pattern too complex")]
        ELSE IF timedOut
        THEN [r |-> RegexVal(pattern, Nil), err |-> Errorf("regex compilation timed out")]
        ELSE IF result.err # NoError
        THEN [r |-> RegexVal(pattern, Nil),
              err |-> Wrap("invalid regex pattern", result.err)]
        ELSE [r |-> RegexVal(pattern, result.re), err |-> NoError]

\* ----------------------------------------------------------------- parser
\* The grammar of the struct tags, parsed by recursive descent. A parse
\* operator takes the tokens and a position and gives ok, the node and the
\* position after it.
Parsed(node, pos) == [ok |-> TRUE, node |-> node, pos |-> pos]
NoParse == [ok |-> FALSE, node |-> Nil, pos |-> 0]

\* A grammar that matches the literals of every token by their exact text.
LiteralExact(toks, i, lit) == i <= Len(toks) /\ toks[i].value = lit

\* A literal of the grammar matches a token by its text, whatever the rule
\* that produced it; participle.CaseInsensitive("Keyword") folds case for
\* the tokens of the Keyword rule.
Literal(toks, i, lit) ==
  /\ i <= Len(toks)
  /\ IF toks[i].type = "Keyword" THEN EqualFold(toks[i].value, lit)
     ELSE toks[i].value = lit

\* strconv.ParseFloat on the text of a Float token, for the integral
\* numbers of the model: a sign, digits, and a fraction of zeros.
ParseFloat(s) ==
  LET neg == Head(s) = "-"
      body == IF Head(s) \in {"-", "+"} THEN Tail(s) ELSE s
      int == SubSeq(body, 1, Run(body, Digits))
  IN  IF neg THEN 0 - Atoi(int) ELSE Atoi(int)

\* The Value of a Regex token whose capture returned c.
\* A Value that keeps the RegexVal whatever Capture returned.
RegexValueUnchecked(c, i) ==
  Parsed(Ptr(Value(Nil, Nil, Ptr(c.r), Nil, FALSE)), i + 1)

\* The Value of a Regex token from what RegexVal.Capture returned for it.
RegexValue(c, i) ==
  IF c.err # NoError THEN NoParse
  ELSE Parsed(Ptr(Value(Nil, Nil, Ptr(c.r), Nil, FALSE)), i + 1)

\* Value: ( @Float | @String | @Regex | @("TRUE" | "FALSE") | @"NULL" ).
\* A capture into a bool field stores true when the alternative matched,
\* whatever the token's text: Boolean points to true for TRUE and for FALSE.
ParseValue(toks, i, timedOut) ==
  IF i > Len(toks) THEN NoParse
  ELSE
    CASE toks[i].type = "Float" ->
           Parsed(Ptr(Value(Ptr(ParseFloat(toks[i].value)), Nil, Nil, Nil, FALSE)), i + 1)
      [] toks[i].type = "String" ->
           Parsed(Ptr(Value(Nil, Ptr(toks[i].value), Nil, Nil, FALSE)), i + 1)
      [] toks[i].type = "Regex" ->
           RegexValue(RegexCapture(toks[i].value, timedOut), i)
      [] OTHER ->
           IF Literal(toks, i, <<"T", "R", "U", "E">>)
              \/ Literal(toks, i, <<"F", "A", "L", "S", "E">>)
           THEN Parsed(Ptr(Value(Nil, Nil, Nil, Ptr(TRUE), FALSE)), i + 1)
           ELSE IF Literal(toks, i, <<"N", "U", "L", "L">>)
           THEN Parsed(Ptr(Value(Nil, Nil, Nil, Nil, TRUE)), i + 1)
           ELSE NoParse

CompareOperators ==
  { <<"<", ">">>, <<"<", "=">>, <<">", "=">>, <<"=">>, <<"<">>, <<">">>, <<"!", "=">> }

\* The name an operator goes by in the evaluator.
OpName(text) ==
  CASE text = <<"<", ">">> -> "<>"
    [] text = <<"<", "=">> -> "<="
    [] text = <<">", "=">> -> ">="
    [] text = <<"=">> -> "="
    [] text = <<"<">> -> "<"
    [] text = <<">">> -> ">"
    [] text = <<"!", "=">> -> "!="

\* The Compare of an operator text and the parse v of its value.
CompareOf(text, v) ==
  IF ~v.ok THEN NoParse ELSE Parsed(Ptr(Compare(OpName(text), v.node)), v.pos)

\* Compare: @( "<>" | "<=" | ">=" | "=" | "<" | ">" | "!=" ) @@.
ParseCompare(toks, i, timedOut) ==
  IF i > Len(toks) \/ ~(\E o \in CompareOperators : Literal(toks, i, o)) THEN NoParse
  ELSE CompareOf(toks[i].value, ParseValue(toks, i + 1, timedOut))

\* The Predicate of a symbol and the parse c of its comparison.
PredicateOf(sym, c) ==
  IF ~c.ok THEN NoParse ELSE Parsed(Ptr(Predicate(sym, c.node)), c.pos)

\* Predicate: @Ident @@.
ParsePredicate(toks, i, timedOut) ==
  IF i > Len(toks) \/ toks[i].type # "Ident" THEN NoParse
  ELSE PredicateOf(toks[i].value, ParseCompare(toks, i + 1, timedOut))

RECURSIVE ParseExpression(_, _, _)

\* The Condition at position i, of the parse e of an expression after "("
\* and the parse p of a predicate.
ConditionOf(toks, i, e, p) ==
  IF Literal(toks, i, <<"(">>) /\ e.ok /\ Literal(toks, e.pos, <<")">>)
  THEN Parsed(Ptr(Condition(e.node, Nil)), e.pos + 1)
  ELSE IF p.ok THEN Parsed(Ptr(Condition(Nil, p.node)), p.pos)
  ELSE NoParse

\* Condition: "(" @@ ")" | @@.
ParseCondition(toks, i, timedOut) ==
  ConditionOf(toks, i, ParseExpression(toks, i + 1, timedOut),
              ParsePredicate(toks, i, timedOut))

\* ( "AND" @@ )* after the conditions in acc; c is the parse of the
\* condition after the token at i.
RECURSIVE AndRepeat(_, _, _, _)
AndStep(toks, i, timedOut, acc, c) ==
  IF Literal(toks, i, <<"A", "N", "D">>) /\ c.ok
  THEN AndRepeat(toks, c.pos, timedOut, Append(acc, c.node))
  ELSE Parsed(Ptr(OrCondition(acc)), i)

AndRepeat(toks, i, timedOut, acc) ==
  AndStep(toks, i, timedOut, acc, ParseCondition(toks, i + 1, timedOut))

\* The OrCondition that starts with the parse c of a condition.
OrConditionOf(toks, timedOut, c) ==
  IF ~c.ok THEN NoParse ELSE AndRepeat(toks, c.pos, timedOut, <<c.node>>)

\* OrCondition: @@ ( "AND" @@ )*.
ParseOrCondition(toks, i, timedOut) ==
  OrConditionOf(toks, timedOut, ParseCondition(toks, i, timedOut))

\* ( "OR" @@ )* after the terms in acc; t is the parse of the term after
\* the token at i.
RECURSIVE OrRepeat(_, _, _, _)
OrStep(toks, i, timedOut, acc, t) ==
  IF Literal(toks, i, <<"O", "R">>) /\ t.ok
  THEN OrRepeat(toks, t.pos, timedOut, Append(acc, t.node))
  ELSE Parsed(Ptr(Expression(acc)), i)

OrRepeat(toks, i, timedOut, acc) ==
  OrStep(toks, i, timedOut, acc, ParseOrCondition(toks, i + 1, timedOut))

\* The Expression that starts with the parse t of a term.
ExpressionOf(toks, timedOut, t) ==
  IF ~t.ok THEN NoParse ELSE OrRepeat(toks, t.pos, timedOut, <<t.node>>)

\* Expression: @@ ( "OR" @@ )*.
ParseExpression(toks, i, timedOut) ==
  ExpressionOf(toks, timedOut, ParseOrCondition(toks, i, timedOut))

\* The result of ParseString from the lexed query and the parse e of an
\* expression at its first token: the whole input must be consumed.
ParseResult(lexed, e) ==
  IF ~lexed.ok THEN [expression |-> Nil, err |-> Errorf("lex error")]
  ELSE IF ~e.ok \/ e.pos # Len(lexed.tokens) + 1
  THEN [expression |-> Nil, err |-> Errorf("unexpected token")]
  ELSE [expression |-> e.node, err |-> NoError]

ParseTokens(lexed, timedOut) ==
  ParseResult(lexed, ParseExpression(lexed.tokens, 1, timedOut))

\* parser.ParseString: lex, parse one Expression, and require end of input.
ParseString(q, timedOut) == ParseTokens(Lex(q), timedOut)

\* ---------------------------------------------------------- matcher facade
\* A NewMatcher that returns a matcher next to the parse error.
MatcherOfPartial(parsed) ==
  [m |-> Ptr([Expression |-> IF parsed.err # NoError THEN Expression(<<>>)
                             ELSE Deref(parsed.expression),
              Debug |-> FALSE]),
   err |-> IF parsed.err # NoError THEN Wrap("parse error", parsed.err) ELSE NoError]

\* The results of NewMatcher from those of ParseString.
MatcherOf(parsed) ==
  IF parsed.err # NoError THEN [m |-> Nil, err |-> Wrap("parse error", parsed.err)]
  ELSE [m |-> Ptr([Expression |-> Deref(parsed.expression), Debug |-> FALSE]),
        err |-> NoError]

\* NewMatcher: the *Matcher and the error it returns.
NewMatcherResult(q, timedOut) ==
  IF q = <<>> THEN [m |-> Nil, err |-> Errorf("empty query string")]
  ELSE MatcherOf(ParseString(q, timedOut))

\* Matcher.Test; c is a *Context.
MatcherTest(m, c) ==
  IF c = Nil THEN Unseen(Return(FALSE, Errorf("nil context provided")))
  ELSE ExpressionEval(Ptr(m.Expression), Deref(c))

\* A TestWithContext that looks at the context again after the walk.
MatcherTestWithContextPreemptible(m, ctx, c) ==
  IF ctx.atSelect = "nil"
  THEN Unseen(Return(FALSE, Errorf("nil context.Context provided")))
  ELSE IF ctx.atSelect # "live" THEN Unseen(Return(FALSE, Errorf(ctx.atSelect)))
  ELSE IF ctx.duringWalk # "live" THEN Unseen(Return(FALSE, Errorf(ctx.duringWalk)))
  ELSE MatcherTest(m, c)

\* Matcher.TestWithContext; ctx is the context.Context as the call finds it:
\* atSelect when the select looks at it, duringWalk while m.Test runs, each
\* "nil" (no context), "live", or the error of a finished one ("context
\* canceled", "context deadline exceeded").
MatcherTestWithContext(m, ctx, c) ==
  IF ctx.atSelect = "nil"
  THEN Unseen(Return(FALSE, Errorf("nil context.Context provided")))
  ELSE IF ctx.atSelect # "live" THEN Unseen(Return(FALSE, Errorf(ctx.atSelect)))
  ELSE MatcherTest(m, c)

\* ------------------------------------------------------------------ inputs
FieldA == <<"a">>
FieldB == <<"b">>
FieldC == <<"c">>
Fields == {FieldA, FieldB, FieldC}

Nums == 0..MaxNum

Spaced(x, y) == x \o <<" ">> \o y
Quoted(s) == <<"'">> \o s \o <<"'">>
Slashed(s) == <<"/">> \o s \o <<"/">>
Parens(s) == <<"(">> \o s \o <<")">>

\* A literal is described by its kind and content; LitText is how a query
\* writes it.
NumLit(n) == [kind |-> "number", num |-> n, str |-> <<>>, bool |-> FALSE]
StrLit(s) == [kind |-> "string", num |-> 0, str |-> s, bool |-> FALSE]
RegexLit(s) == [kind |-> "regex", num |-> 0, str |-> s, bool |-> FALSE]
BoolLit(b) == [kind |-> "boolean", num |-> 0, str |-> <<>>, bool |-> b]
NullLit == [kind |-> "null", num |-> 0, str |-> <<>>, bool |-> FALSE]

LitText(l) ==
  CASE l.kind = "number" -> Itoa(l.num)
    [] l.kind = "string" -> Quoted(l.str)
    [] l.kind = "regex" -> Slashed(l.str)
    [] l.kind = "boolean" ->
         IF l.bool THEN <<"T", "R", "U", "E">> ELSE <<"F", "A", "L", "S", "E">>
    [] l.kind = "null" -> <<"N", "U", "L", "L">>

NumLits == {NumLit(n) : n \in Nums}
StrLits == { StrLit(<<"x">>), StrLit(<<"t", "r", "u", "e">>), StrLit(SprintfF(1)) }
RegexLits == { RegexLit(<<"x">>), RegexLit(<<"^", "x", "$">>) }
BoolLits == { BoolLit(TRUE), BoolLit(FALSE) }
Lits == NumLits \cup StrLits \cup RegexLits \cup BoolLits \cup {NullLit}

\* A predicate is described by its field, the text of its operator and its
\* literal; PredText is the text "f op lit".
Pred(f, op, lit) == [f |-> f, op |-> op, lit |-> lit]
PredText(p) == Spaced(Spaced(p.f, p.op), LitText(p.lit))

\* One predicate on field a: every operator with every literal.
SinglePreds == {Pred(FieldA, op, lit) : op \in CompareOperators, lit \in Lits}

\* The predicates that compound queries are built from: one that can be
\* true, false or panic, and one that can be true, false or an error,
\* depending on the field.
Pool(f) == { Pred(f, <<"=">>, NumLit(1)), Pred(f, <<"=">>, RegexLit(<<"x">>)) }
PoolPreds == Pool(FieldA) \cup Pool(FieldB) \cup Pool(FieldC)
Triples == Pool(FieldA) \X Pool(FieldB) \X Pool(FieldC)

AND == <<"A", "N", "D">>
OR == <<"O", "R">>

\* s wrapped in n pairs of parentheses.
RECURSIVE Nest(_, _)
Nest(s, n) == IF n = 0 THEN s ELSE Nest(Parens(s), n - 1)

\* The shapes of compound queries, of predicate texts p, q and r.
OrAnd(p, q, r) == Spaced(Spaced(p, OR), Spaced(Spaced(q, AND), r))
AndOr(p, q, r) == Spaced(Spaced(Spaced(p, AND), q), Spaced(OR, r))
OrOr(p, q, r) == Spaced(Spaced(Spaced(Spaced(p, OR), q), OR), r)
AndAnd(p, q, r) == Spaced(Spaced(Spaced(Spaced(p, AND), q), AND), r)
GroupOrAnd(p, q, r, n) == Spaced(Spaced(Nest(Spaced(Spaced(p, OR), q), n), AND), r)
AndGroupOr(p, q, r, n) == Spaced(Spaced(p, AND), Nest(Spaced(Spaced(q, OR), r), n))
OrGroupAnd(p, q, r, n) == Spaced(Spaced(p, OR), Nest(Spaced(Spaced(q, AND), r), n))
\* Groups within groups: (p AND (q OR (r AND p))).
NestedGroups(p, q, r) ==
  Parens(Spaced(Spaced(p, AND),
                Parens(Spaced(Spaced(q, OR), Parens(Spaced(Spaced(r, AND), p))))))

\* unit written n times.
Repeat(unit, n) == [i \in 1..(n * Len(unit)) |-> unit[((i - 1) % Len(unit)) + 1]]

\* The patterns of regex literals at the limits of RegexVal.Capture: at and
\* over the length limit, with and without an escaped slash, and at, under
\* and over the complexity limit with each kind of repetition operator.
LongPatterns ==
  { Repeat(<<"a">>, n) : n \in {MaxRegexPatternLength, MaxRegexPatternLength + 1} }
    \cup { <<"\\", "/">> \o Repeat(<<"a">>, n - 1) :
             n \in {MaxRegexPatternLength, MaxRegexPatternLength + 1} }
ComplexPatterns ==
  { Repeat(u, n) : u \in {<<"a", "?">>, <<"a", "{", "3", "}">>},
                   n \in {MaxRegexComplexity, MaxRegexComplexity + 1} }
    \cup { Repeat(<<"a", "{", "3", "}">>, (MaxRegexComplexity \div 2) + 1),
           Repeat(<<"}">>, MaxRegexComplexity + 1),
           Repeat(<<"|">>, MaxRegexComplexity + 1),
           Repeat(<<"a", "*", "b", "+">>, MaxRegexComplexity \div 2),
           Repeat(<<"a", "*", "b", "+">>, (MaxRegexComplexity \div 2) + 1) }
\* Patterns with escaped slashes.
SlashPatterns ==
  { <<"x", "\\", "/", "y">>, <<"\\", "/", "x", "\\", "/">> }
LimitPatterns == LongPatterns \cup ComplexPatterns \cup SlashPatterns

FlatShapes == {"OrAnd", "AndOr", "OrOr", "AndAnd", "NestedGroups"}
GroupShapes == {"GroupOrAnd", "AndGroupOr", "OrGroupAnd"}
Depths == 1..(MaxNest + 1)

\* The description of a query: a shape over described predicates, with the
\* depth of its group, or a literal text. A description with both is written
\* as the text says.
Input(shape, preds, depth, text) ==
  [shape |-> shape, preds |-> preds, depth |-> depth, text |-> text]

QueryText(in) ==
  LET p == PredText(in.preds[1])
      q == PredText(in.preds[2])
      r == PredText(in.preds[3])
  IN  IF in.text # <<>> THEN in.text ELSE
      CASE in.shape \in {"single", "regex", "named"} -> p
        [] in.shape = "OrAnd" -> OrAnd(p, q, r)
        [] in.shape = "AndOr" -> AndOr(p, q, r)
        [] in.shape = "OrOr" -> OrOr(p, q, r)
        [] in.shape = "AndAnd" -> AndAnd(p, q, r)
        [] in.shape = "NestedGroups" -> NestedGroups(p, q, r)
        [] in.shape = "GroupOrAnd" -> GroupOrAnd(p, q, r, in.depth)
        [] in.shape = "AndGroupOr" -> AndGroupOr(p, q, r, in.depth)
        [] in.shape = "OrGroupAnd" -> OrGroupAnd(p, q, r, in.depth)
        [] in.shape = "text" -> in.text

\* Queries NewMatcher rejects: empty, cut short, unbalanced, an unknown
\* character, a regex literal that does not compile.
BadQueries ==
  { <<>>, <<"a", " ", "=">>, <<"a", " ", "=", " ", "1", " ", "O", "R">>,
    <<"(", "a", " ", "=", " ", "1">>, <<"a", " ", "#", " ", "1">>,
    <<"a", " ", "=", " ", "/", "*", "x", "/">>,
    <<"a", " ", "=", " ", "/", "x", "/", "y", "/">> }

\* The library example of the README: the query a=1 AND b>5 OR c='foo' and
\* the Context{"a": 1, "b": 10, "c": "foo"} of Go ints and a string.
ReadmeQuery ==
  << "a", "=", "1", " ", "A", "N", "D", " ", "b", ">", "5", " ", "O", "R", " ",
     "c", "=", "'", "f", "o", "o", "'" >>
ReadmeRecord ==
  [f \in Fields |->
     CASE f = FieldA -> GoNum("int", 1)
       [] f = FieldB -> GoNum("int", 10)
       [] f = FieldC -> GoString(<<"f", "o", "o">>)]

\* Values a field can hold.
WideValues ==
  {GoNum(k, n) : k \in NumKinds, n \in Nums}
    \cup { GoString(<<"x">>), GoString(<<"a", "x">>), GoString(<<"y">>),
           GoString(<<"1">>), GoString(SprintfF(1)), GoString(<<"t", "r", "u", "e">>),
           GoString(<<"f", "a", "l", "s", "e">>) }
    \cup { GoBool(TRUE), GoBool(FALSE), GoNil, GoSlice }
NarrowValues == { GoNum("float64", 1), GoString(<<"x">>), GoNum("int8", 1) }

\* Records: field a alone with any value or no field at all, and any of the
\* fields with the values that decide the pool's predicates.
WideRecords == { [f \in {FieldA} |-> v] : v \in WideValues } \cup { <<>> }
NarrowRecords == UNION { [S -> NarrowValues] : S \in SUBSET Fields }

LimitRecords ==
  { <<>> } \cup { [f \in {FieldA} |-> v] :
                    v \in {GoString(<<"a", "a", "a">>), GoString(<<"x">>), GoNum("float64", 1),
                           GoString(<<"x", "/", "y">>), GoString(<<"x", "\\", "y">>),
                           GoString(<<"/", "x", "/">>)} }

Contexts(records) == {Nil} \cup {Ptr(r) : r \in records}

\* The queries of the model.
Inputs ==
  { Input("single", <<p>>, 0, <<>>) : p \in SinglePreds \cup PoolPreds }
    \cup { Input(sh, t, 0, <<>>) : sh \in FlatShapes, t \in Triples }
    \cup { Input(sh, t, n, <<>>) : sh \in GroupShapes, t \in Triples, n \in Depths }
    \cup { Input("text", <<>>, 0, q) : q \in BadQueries \cup {ReadmeQuery} }
    \cup { Input("regex", <<Pred(FieldA, <<"=">>, RegexLit(b))>>, 0, <<>>) :
             b \in LimitPatterns }

\* The *Contexts a query is run on: a single predicate on field a on every
\* value of the field, the README query on the README record, any other
\* query on every record that decides the pool.
ContextsFor(in) ==
  IF in.shape = "single" /\ in.preds[1].f = FieldA THEN Contexts(WideRecords)
  ELSE IF in.shape = "regex" THEN Contexts(LimitRecords)
  ELSE IF in.text = ReadmeQuery THEN {Ptr(ReadmeRecord)}
  ELSE Contexts(NarrowRecords)

Signals == {"nil", "live", "context canceled", "context deadline exceeded"}

\* What a context.Context can be over one call: no context, one that is
\* finished from the start, one that stays live, and one that is live at
\* the select and finishes during the walk.
ContextOver(atSelect, duringWalk) == [atSelect |-> atSelect, duringWalk |-> duringWalk]
GoContexts ==
  { ContextOver(sig, sig) : sig \in Signals }
    \cup { ContextOver("live", sig) : sig \in Signals \ {"nil", "live"} }

\* ----------------------------------------------------------- state machine
\* One matcher from its construction on. Init is the state in which
\* NewMatcher(query) has returned matcher and err; record is the *Context
\* the caller goes on to test.
VARIABLES
  input,    \* the description of the query
  query,    \* its text, given to NewMatcher
  matcher,  \* the *Matcher it returned
  err,      \* the error it returned
  record,   \* the *Context given to Test and TestWithContext
  called,   \* the last call made: "NewMatcher", "Test", "TestWithContext"
  signal,   \* the context state seen by the last TestWithContext
  during,   \* the context state while the last TestWithContext walked
  history,  \* the outcome of the first evaluation against record, and
            \* whether another record has been evaluated since that one
  result,   \* what the last Test or TestWithContext did
  caller,   \* where NewMatcher is in RegexVal.Capture: "checks", "select",
            \* or how Capture returned: "delivered", "timed out", "rejected"
  pattern,  \* the local pattern of Capture, unescaped
  worker,   \* the compile goroutine: "none", "compiling", "sending", "done"
  delivery, \* the struct {re, err} the worker sends on ch, once it has it
  deadline, \* the 100ms context: "none", "pending", "elapsed", "cancelled"
  calls     \* the calls that run concurrently on matcher, by caller: where
            \* each is, what it was given, the symbols it has looked up

vars ==
  <<input, query, matcher, err, record, called, signal, during, history, result,
    caller, pattern, worker, delivery, deadline, calls>>

\* The goroutines of RegexVal.Capture.
capture == <<caller, pattern, worker, delivery, deadline>>

NoResult == Unseen(Return(FALSE, NoError))
NoHistory == [first |-> Nil, other |-> FALSE]

\* The other records a matcher is run on between two runs on record.
OtherContexts ==
  { Ptr(<<>>), Ptr([f \in Fields |-> GoString(<<"x">>)]) }

Init ==
  \E in \in Inputs, timedOut \in BOOLEAN :
  \E r \in {NewMatcherResult(QueryText(in), timedOut)} :
    /\ input = in
    /\ query = QueryText(in)
    /\ matcher = r.m
    /\ err = r.err
    /\ record \in ContextsFor(in)
    /\ called = "NewMatcher"
    /\ signal = "none"
    /\ during = "none"
    /\ history = NoHistory
    /\ result = NoResult
    /\ caller = "returned"
    /\ pattern = <<>>
    /\ worker = "none"
    /\ delivery = Nil
    /\ deadline = "none"
    /\ calls = <<>>

\* The history after an evaluation against record returned r, and after
\* one against another record.
Remember(r) == [history EXCEPT !.first = IF history.first = Nil THEN Ptr(r) ELSE @]
RememberOther == [history EXCEPT !.other = (history.first # Nil)]

\* A Test that takes the OR-terms out of the tree as it walks them.
TestConsuming ==
  /\ matcher # Nil
  /\ called' = "Test"
  /\ signal' = "none"
  /\ during' = "none"
  /\ \E r \in {MatcherTest(Deref(matcher), record)} :
       result' = r /\ history' = Remember(r)
  /\ matcher' = Ptr([Deref(matcher) EXCEPT !.Expression = Expression(<<>>)])
  /\ UNCHANGED <<input, query, err, record, capture, calls>>

Test ==
  /\ matcher # Nil
  /\ called' = "Test"
  /\ signal' = "none"
  /\ during' = "none"
  /\ \E r \in {MatcherTest(Deref(matcher), record)} :
       result' = r /\ history' = Remember(r)
  /\ UNCHANGED <<input, query, matcher, err, record, capture, calls>>

TestWithContext(ctx) ==
  /\ matcher # Nil
  /\ called' = "TestWithContext"
  /\ signal' = ctx.atSelect
  /\ during' = ctx.duringWalk
  /\ \E r \in {MatcherTestWithContext(Deref(matcher), ctx, record)} :
       /\ result' = r
       /\ history' = IF ctx.atSelect = "live" THEN Remember(r) ELSE history
  /\ UNCHANGED <<input, query, matcher, err, record, capture, calls>>

\* Test on a record other than the caller's.
TestOther(c) ==
  /\ matcher # Nil
  /\ c # record
  /\ called' = "Test other"
  /\ signal' = "none"
  /\ during' = "none"
  /\ result' = MatcherTest(Deref(matcher), c)
  /\ history' = RememberOther
  /\ UNCHANGED <<input, query, matcher, err, record, capture, calls>>

Next ==
  \/ Test
  \/ \E ctx \in GoContexts : TestWithContext(ctx)
  \/ \E c \in OtherContexts : TestOther(c)

Spec == Init /\ [][Next]_vars

\* ------------------------------------------- the race of RegexVal.Capture
\* NewMatcher on a query with one regex literal, from the call of Capture
\* on: the caller starts the worker and the deadline and waits in the
\* select for the first of them.
CaptureInputs ==
  { in \in Inputs : in.shape = "regex"
                      \/ (in.shape = "single" /\ in.preds[1].lit.kind = "regex") }
    \cup { Input("text", <<>>, 0, <<"a", " ", "=", " ", "/", "*", "x", "/">>) }

\* The text of the Regex token of the query, and its pattern.
LiteralOf(q) == Drop(q, Run(q, Chars \ {"/"}))
PatternOf(q) == UnescapeSlash(Unquote(LiteralOf(q)))

\* Capture has been called with the text of the Regex token and has taken
\* the pattern out of it.
CaptureInit ==
  \E in \in CaptureInputs :
    /\ input = in
    /\ query = QueryText(in)
    /\ matcher = Nil
    /\ err = NoError
    /\ record = Nil
    /\ called = "none"
    /\ signal = "none"
    /\ during = "none"
    /\ history = NoHistory
    /\ result = NoResult
    /\ caller = "checks"
    /\ pattern = PatternOf(QueryText(in))
    /\ worker = "none"
    /\ delivery = Nil
    /\ deadline = "none"
    /\ calls = <<>>

\* The length and complexity checks, then context.WithTimeout, the channel
\* and the go statement.
Checks ==
  /\ caller = "checks"
  /\ IF TooLong(pattern) \/ TooComplex(pattern)
     THEN caller' = "rejected" /\ UNCHANGED <<worker, deadline>>
     ELSE caller' = "select" /\ worker' = "compiling" /\ deadline' = "pending"
  /\ UNCHANGED <<input, query, matcher, err, record, called, signal, during, history, result, calls,
                 pattern, delivery>>

\* The worker finishes regexp.Compile and blocks in the send on the
\* unbuffered channel.
Compile ==
  /\ worker = "compiling"
  /\ worker' = "sending"
  /\ delivery' = Ptr(RegexpCompile(pattern))
  /\ UNCHANGED <<input, query, matcher, err, record, called, signal, during, history, result, calls,
                 caller, pattern, deadline>>

\* 100ms pass: ctx.Done() is closed.
Elapse ==
  /\ deadline = "pending"
  /\ deadline' = "elapsed"
  /\ UNCHANGED <<input, query, matcher, err, record, called, signal, during, history, result, calls,
                 caller, pattern, worker, delivery>>

\* select, case result := <-ch, then the deferred cancel.
Receive ==
  /\ caller = "select"
  /\ worker = "sending"
  /\ caller' = "delivered"
  /\ worker' = "done"
  /\ deadline' = IF deadline = "pending" THEN "cancelled" ELSE deadline
  /\ UNCHANGED <<input, query, matcher, err, record, called, signal, during, history, result, calls,
                 pattern, delivery>>

\* The select with no case <-ctx.Done().
TimeoutNever == FALSE /\ UNCHANGED vars

\* select, case <-ctx.Done(): the timeout error; the worker is left behind.
Timeout ==
  /\ caller = "select"
  /\ deadline = "elapsed"
  /\ caller' = "timed out"
  /\ UNCHANGED <<input, query, matcher, err, record, called, signal, during, history, result, calls,
                 pattern, worker, delivery, deadline>>

\* Capture has returned; the parse ends and NewMatcher returns.
NewMatcherReturns ==
  /\ caller \in {"delivered", "timed out", "rejected"}
  /\ called = "none"
  /\ called' = "NewMatcher"
  /\ matcher' = NewMatcherResult(query, caller = "timed out").m
  /\ err' = NewMatcherResult(query, caller = "timed out").err
  /\ UNCHANGED <<input, query, record, signal, during, history, result, capture, calls>>

\* The steps of the goroutine that called NewMatcher, within Capture.
CallerStep == Checks \/ Receive \/ Timeout

CaptureNext ==
  Checks \/ Compile \/ Elapse \/ Receive \/ Timeout \/ NewMatcherReturns

\* The caller runs when it can and time passes; nothing is assumed about
\* how long the worker takes.
CaptureSpec ==
  CaptureInit /\ [][CaptureNext]_vars /\ WF_vars(CallerStep) /\ WF_vars(Elapse)

\* The same, with a worker that runs: regexp.Compile returns, so the worker
\* does not stay in it forever. (Compile is enabled whenever the worker is
\* compiling, so this is weak fairness of Compile.)
WorkerSpec == CaptureSpec /\ []<>(worker # "compiling")

\* ------------------------------------------------------ concurrent calls
\* Several goroutines call Test or TestWithContext on one compiled Matcher
\* at once. A call walks the tree one Predicate.Eval at a time, and between
\* any two of its lookups the other calls may run.
NumCallers == 2
Callers == 1..NumCallers

\* The compound queries and the records of the concurrent calls.
ConcurrentInputs ==
  { Input(sh, t, 0, <<>>) : sh \in {"OrAnd", "AndOr"}, t \in Triples }
ConcurrentRecords ==
  { [f \in Fields |-> GoString(<<"x">>)], [f \in Fields |-> GoNum("float64", 1)],
    [f \in {FieldA, FieldC} |-> GoNum("float64", 1)] }

\* What a call is: Test, or TestWithContext with a context.
CallKind(method, ctx) == [method |-> method, ctx |-> ctx]
NoContext == ContextOver("none", "none")
NoCall == CallKind("none", NoContext)
CallKinds ==
  { CallKind("Test", NoContext),
    CallKind("TestWithContext", ContextOver("live", "context canceled")),
    CallKind("TestWithContext", ContextOver("context canceled", "context canceled")) }

Call(pc, kind, rec, trace, out) ==
  [pc |-> pc, kind |-> kind, rec |-> rec, trace |-> trace, out |-> out]

ConcurrentInit ==
  \E in \in ConcurrentInputs :
  \E r \in {NewMatcherResult(QueryText(in), FALSE)} :
    /\ input = in
    /\ query = QueryText(in)
    /\ matcher = r.m
    /\ err = r.err
    /\ record = Nil
    /\ called = "NewMatcher"
    /\ signal = "none"
    /\ during = "none"
    /\ history = NoHistory
    /\ result = NoResult
    /\ caller = "returned"
    /\ pattern = <<>>
    /\ worker = "none"
    /\ delivery = Nil
    /\ deadline = "none"
    /\ calls \in [Callers -> { Call("idle", NoCall, Ptr(c), <<>>, NoResult) :
                                c \in ConcurrentRecords }]

\* What a call of the kind on the matcher and the record does from here on.
Walk(m, kind, c) ==
  IF kind.method = "Test" THEN MatcherTest(m, c)
  ELSE MatcherTestWithContext(m, kind.ctx, c)

\* Caller i calls Test or TestWithContext.
Enter(i, kind) ==
  /\ matcher # Nil
  /\ calls[i].pc = "idle"
  /\ calls' = [calls EXCEPT ![i].pc = "walking", ![i].kind = kind]
  /\ UNCHANGED <<input, query, matcher, err, record, called, signal, during,
                 history, result, capture>>

\* The call's next lookup in the walk, or its return when the walk is over.
Advance(call, walk) ==
  IF Len(call.trace) < Len(walk.seen)
       /\ SubSeq(walk.seen, 1, Len(call.trace)) = call.trace
  THEN [call EXCEPT !.trace = Append(@, walk.seen[Len(call.trace) + 1])]
  ELSE [call EXCEPT !.pc = "returned", !.out = walk]

\* A step that takes the OR-terms out of the shared tree once it has read
\* them.
StepConsuming(i) ==
  /\ calls[i].pc = "walking"
  /\ calls' = [calls EXCEPT
                 ![i] = Advance(@, Walk(Deref(matcher), calls[i].kind, calls[i].rec))]
  /\ matcher' = Ptr([Deref(matcher) EXCEPT !.Expression = Expression(<<>>)])
  /\ UNCHANGED <<input, query, err, record, called, signal, during,
                 history, result, capture>>

\* Caller i runs up to and including its next Predicate.Eval, or returns.
Step(i) ==
  /\ calls[i].pc = "walking"
  /\ calls' = [calls EXCEPT
                 ![i] = Advance(@, Walk(Deref(matcher), calls[i].kind, calls[i].rec))]
  /\ UNCHANGED <<input, query, matcher, err, record, called, signal, during,
                 history, result, capture>>

ConcurrentNext ==
  \E i \in Callers :
    \/ \E kind \in CallKinds : Enter(i, kind)
    \/ Step(i)

ConcurrentSpec == ConcurrentInit /\ [][ConcurrentNext]_vars

\* ------------------------------------------------------ vocabulary of claims
\* The last call walked the tree against a record.
Evaluated ==
  /\ record # Nil
  /\ called = "Test" \/ (called = "TestWithContext" /\ signal = "live")

Ctx == Deref(record)

\* The call returned (b, nil).
Returned(r, b) == ~r.panic /\ r.err = NoError /\ r.b = b
Ok(r) == ~r.panic /\ r.err = NoError
Failed(r) == ~r.panic /\ r.err # NoError

\* The token a literal is lexed to.
LitToken(l) ==
  CASE l.kind = "number" -> Token("Float", Itoa(l.num))
    [] l.kind = "string" -> Token("String", l.str)
    [] l.kind = "regex" -> Token("Regex", Slashed(l.str))
    [] OTHER -> Token("Keyword", LitText(l))

\* The *Predicate a described predicate is parsed to, and the tree of the
\* query that consists of it.
PredNode(p) ==
  ParsePredicate(<<Token("Ident", p.f), Token("Operators", p.op), LitToken(p.lit)>>,
                 1, FALSE).node
TreeOf(node) == Expression(<<Ptr(OrCondition(<<Ptr(Condition(Nil, node))>>))>>)

\* What the predicate returns when it is evaluated on its own.
Alone(p, ctx) == PredicateEval(PredNode(p), ctx)

\* The query of one described predicate compiles to that predicate.
SingleParsed ==
  (input.shape = "single" /\ matcher # Nil)
    => Deref(matcher).Expression = TreeOf(PredNode(input.preds[1]))

IsSingle(op, kind) ==
  /\ input.shape = "single"
  /\ input.preds[1].op = op
  /\ input.preds[1].lit.kind = kind

\* ------------------------------------------------------- direct calls
\* Predicate.Eval is exported, and so are the fields of the nodes: a caller
\* can build a Predicate by hand, with any string as its Operator, and call
\* Eval on it.
KnownOperators == {"=", "<>", "!=", ">", ">=", "<", "<="}
UnknownOperators == {"==", "~", ""}
BuiltLits == { NumLit(1), StrLit(<<"x">>), RegexLit(<<"x">>), BoolLit(TRUE), NullLit }
BuiltInputs ==
  { Input(sh, <<Pred(FieldA, o, l)>>, 0, <<>>) :
      sh \in {"built", "guarded"}, o \in KnownOperators \cup UnknownOperators,
      l \in BuiltLits }

\* The *Value of a literal and the *Predicate built from a description.
ValueOf(l) == ParseValue(<<LitToken(l)>>, 1, FALSE).node
BuiltPredicate(d) == Ptr(Predicate(d.f, Ptr(Compare(d.op, ValueOf(d.lit)))))

\* The nodes above it: the predicate alone, or guarded as in
\* a = 0 OR a = 1 AND p, where p is reached only after a false term and a
\* true condition.
EqualsNum(n) == Ptr(Condition(Nil, PredNode(Pred(FieldA, <<"=">>, NumLit(n)))))
BuiltCondition(d) == Ptr(Condition(Nil, BuiltPredicate(d.preds[1])))
BuiltOrCondition(d) ==
  IF d.shape = "guarded" THEN Ptr(OrCondition(<<EqualsNum(1), BuiltCondition(d)>>))
  ELSE Ptr(OrCondition(<<BuiltCondition(d)>>))
BuiltExpression(d) ==
  IF d.shape = "guarded"
  THEN Ptr(Expression(<<Ptr(OrCondition(<<EqualsNum(0)>>)), BuiltOrCondition(d)>>))
  ELSE Ptr(Expression(<<BuiltOrCondition(d)>>))
BuiltMatcher(d) == Ptr([Expression |-> Deref(BuiltExpression(d)), Debug |-> FALSE])

EvalInit ==
  \E in \in BuiltInputs :
    /\ input = in
    /\ query = <<>>
    /\ matcher = BuiltMatcher(in)
    /\ err = NoError
    /\ record \in Contexts(WideRecords)
    /\ called = "none"
    /\ signal = "none"
    /\ during = "none"
    /\ history = NoHistory
    /\ result = NoResult
    /\ caller = "returned"
    /\ pattern = <<>>
    /\ worker = "none"
    /\ delivery = Nil
    /\ deadline = "none"
    /\ calls = <<>>

\* The caller calls Eval on the predicate with the record.
PredicateEvalCall ==
  /\ record # Nil
  /\ called' = "Predicate.Eval"
  /\ result' = PredicateEval(BuiltPredicate(input.preds[1]), Deref(record))
  /\ UNCHANGED <<input, query, matcher, err, record, signal, during, history,
                 capture, calls>>

\* The caller calls Eval on a node above the predicate.
ConditionEvalCall ==
  /\ record # Nil
  /\ called' = "Condition.Eval"
  /\ result' = ConditionEval(BuiltCondition(input), Deref(record))
  /\ UNCHANGED <<input, query, matcher, err, record, signal, during, history,
                 capture, calls>>

OrConditionEvalCall ==
  /\ record # Nil
  /\ called' = "OrCondition.Eval"
  /\ result' = OrConditionEval(BuiltOrCondition(input), Deref(record))
  /\ UNCHANGED <<input, query, matcher, err, record, signal, during, history,
                 capture, calls>>

ExpressionEvalCall ==
  /\ record # Nil
  /\ called' = "Expression.Eval"
  /\ result' = ExpressionEval(BuiltExpression(input), Deref(record))
  /\ UNCHANGED <<input, query, matcher, err, record, signal, during, history,
                 capture, calls>>

\* Or the caller puts the expression in a Matcher and tests the record.
EvalNext ==
  \/ PredicateEvalCall
  \/ ConditionEvalCall
  \/ OrConditionEvalCall
  \/ ExpressionEvalCall
  \/ Test
  \/ \E ctx \in GoContexts : TestWithContext(ctx)

EvalSpec == EvalInit /\ [][EvalNext]_vars

\* ------------------------------------------------------- written queries
\* Queries on fields of other names: names that start with the letters of a
\* keyword, in either case, names that hold them further on, names with
\* none, and the keywords themselves.
KeywordPrefixed ==
  { <<"o", "r", "d", "e", "r">>,
    <<"o", "r", "i", "g", "i", "n">>,
    <<"a", "n", "d", "r", "o", "i", "d">>,
    <<"n", "u", "l", "l", "a", "b", "l", "e">>,
    <<"t", "r", "u", "e", "n", "e", "s", "s">>,
    <<"O", "r", "d", "e", "r">> }
OtherNames ==
  { <<"n", "a", "m", "e">>,
    <<"d", "o", "o", "r">>,
    <<"b", "a", "n", "d">>,
    <<"_", "o", "r">>,
    <<"x", "1">>,
    <<"o">>,
    <<"n", "u", "l">> }
KeywordNames == { <<"o", "r">>, <<"A", "N", "D">>, <<"N", "u", "l", "l">>, <<"t", "r", "u", "e">> }
FieldNames == KeywordPrefixed \cup OtherNames \cup KeywordNames

NamedLits == { NumLit(1), StrLit(<<"x">>) }
NamedInputs ==
  { Input("named", <<Pred(f, op, l)>>, 0, <<>>) :
      f \in FieldNames, op \in CompareOperators, l \in NamedLits }
NamedRecords(f) ==
  { <<>> } \cup { [g \in {f} |-> v] : v \in {GoNum("float64", 1), GoString(<<"x">>)} }

\* Compound queries with their keywords in other letter cases: s with the
\* letters of ls in lower case. The fields and literals of the pool have no
\* upper case letter, so only the keywords change.
RECURSIVE Recase(_, _)
Recase(s, ls) ==
  IF s = <<>> THEN <<>>
  ELSE <<IF Head(s) \in ls THEN ToLower(Head(s)) ELSE Head(s)>> \o Recase(Tail(s), ls)
Casings == { {"A", "N", "D", "O", "R"}, {"N", "D", "R"}, {"A", "O"}, {"A", "N", "D"} }
CasedShapes == {"OrAnd", "AndOr", "NestedGroups"}
CasedInputs ==
  { Input(sh, t, 0, Recase(QueryText(Input(sh, t, 0, <<>>)), ls)) :
      sh \in CasedShapes, t \in Triples, ls \in Casings }

\* Records that make each predicate of the pool true, false or an error.
CasedRecords == [Fields -> {GoNum("float64", 1), GoNum("float64", 0), GoString(<<"x">>)}]

\* Number literals against fields that hold the text of a number.
NumberInputs ==
  { Input("single", <<Pred(FieldA, op, NumLit(n))>>, 0, <<>>) :
      op \in CompareOperators, n \in {1, 9} }
NumberTexts ==
  { <<"1">>,
    <<"1", ".", "0">>,
    <<"1", ".", "0", "0", "0", "0", "0", "0">>,
    <<"1", "0">>,
    <<"1", "0", ".", "0", "0", "0", "0", "0", "0">>,
    <<"9">>,
    <<"9", ".", "0", "0", "0", "0", "0", "0">>,
    <<"9", ".", "5">> }
NumberRecords ==
  { [f \in {FieldA} |-> v] : v \in {GoString(t) : t \in NumberTexts} \cup {GoNum("float64", 10)} }

WrittenInputs == NamedInputs \cup CasedInputs \cup NumberInputs

WrittenContexts(in) ==
  IF in.shape = "named" THEN Contexts(NamedRecords(in.preds[1].f))
  ELSE IF in.shape = "single" THEN Contexts(NumberRecords)
  ELSE Contexts(CasedRecords)

\* NewMatcher(query) has returned, in time; the caller goes on to test record.
WrittenInit ==
  \E in \in WrittenInputs :
  \E r \in {NewMatcherResult(QueryText(in), FALSE)} :
    /\ input = in
    /\ query = QueryText(in)
    /\ matcher = r.m
    /\ err = r.err
    /\ record \in WrittenContexts(in)
    /\ called = "NewMatcher"
    /\ signal = "none"
    /\ during = "none"
    /\ history = NoHistory
    /\ result = NoResult
    /\ caller = "returned"
    /\ pattern = <<>>
    /\ worker = "none"
    /\ delivery = Nil
    /\ deadline = "none"
    /\ calls = <<>>

WrittenNext == Test

WrittenSpec == WrittenInit /\ [][WrittenNext]_vars

\* ------------------------------------------------------------------ claims
\* C1: Predicate.Eval on a record that lacks the predicate's field returns
\* (false, nil), for each of the seven operators and each kind of literal.
C1_MissingFieldIsFalse ==
  (Evaluated /\ input.shape = "single" /\ input.preds[1].f \notin DOMAIN Ctx)
    => /\ Returned(result, FALSE)
       /\ Returned(Alone(input.preds[1], Ctx), FALSE)

\* An ordering operator with a regex literal, an error on a present field,
\* has been evaluated on a record without the field.
C1_Witness ==
  /\ called = "Test"
  /\ IsSingle(<<">">>, "regex")
  /\ record = Ptr(<<>>)
  /\ Returned(result, FALSE)

\* What each predicate of a compound query returns on its own.
P == Alone(input.preds[1], Ctx)
Q == Alone(input.preds[2], Ctx)
R == Alone(input.preds[3], Ctx)

\* An outcome as one of four kinds, and the outcome of x OR y and x AND y
\* when the right operand is only looked at if the left one does not decide.
Kind(r) ==
  IF r.panic THEN "panic"
  ELSE IF r.err # NoError THEN "error"
  ELSE IF r.b THEN "true" ELSE "false"
OrOf(x, y) == IF x = "false" THEN y ELSE x
AndOf(x, y) == IF x = "true" THEN y ELSE x

\* C2: AND binds tighter than OR: on a record where no predicate fails,
\* p OR q AND r returns p or (q and r).
C2_AndBindsTighter ==
  (Evaluated /\ input.shape = "OrAnd" /\ Ok(P) /\ Ok(Q) /\ Ok(R))
    => Returned(result, P.b \/ (Q.b /\ R.b))

\* p OR q AND r has returned true on a record where p is true and r is
\* false, where (p or q) and r is false.
C2_Witness ==
  /\ called = "Test"
  /\ input.shape = "OrAnd"
  /\ record # Nil
  /\ Ok(P) /\ Ok(Q) /\ Ok(R)
  /\ P.b /\ ~R.b
  /\ Returned(result, TRUE)

\* The tree of the compiled query.
Tree == Deref(matcher).Expression

\* The expression of a group wrapped in n pairs of parentheses.
RECURSIVE Unwrap(_, _)
Unwrap(c, n) ==
  IF n = 0 THEN c
  ELSE IF Deref(c).Nested = Nil \/ Len(Deref(Deref(c).Nested).Or) # 1
          \/ Len(Deref(Deref(Deref(c).Nested).Or[1]).And) # 1
  THEN Nil
  ELSE Unwrap(Deref(Deref(Deref(c).Nested).Or[1]).And[1], n - 1)

\* The condition at position j of term i is a group of k OR-terms within
\* input.depth pairs of parentheses.
GroupAt(i, j, k) ==
  /\ Len(Tree.Or) >= i
  /\ Len(Deref(Tree.Or[i]).And) >= j
  /\ LET c == Unwrap(Deref(Tree.Or[i]).And[j], input.depth - 1) IN
     /\ c # Nil
     /\ Deref(c).Nested # Nil
     /\ Deref(c).Predicate = Nil
     /\ Len(Deref(Deref(c).Nested).Or) = k

\* C3: a parenthesized group is a nested Expression whose result is one
\* AND-operand of the term it stands in, at any depth of nesting:
\* (p OR q) AND r, p AND (q OR r), p OR (q AND r), (p AND (q OR (r AND p))).
C3_ParenthesesGroup ==
  (Evaluated /\ matcher # Nil) =>
    /\ input.shape = "GroupOrAnd"
         => /\ GroupAt(1, 1, 2)
            /\ Kind(result) = AndOf(OrOf(Kind(P), Kind(Q)), Kind(R))
    /\ input.shape = "AndGroupOr"
         => /\ GroupAt(1, 2, 2)
            /\ Kind(result) = AndOf(Kind(P), OrOf(Kind(Q), Kind(R)))
    /\ input.shape = "OrGroupAnd"
         => /\ GroupAt(2, 1, 1)
            /\ Kind(result) = OrOf(Kind(P), AndOf(Kind(Q), Kind(R)))
    /\ input.shape = "NestedGroups"
         => Kind(result) =
              AndOf(Kind(P), OrOf(Kind(Q), AndOf(Kind(R), Kind(P))))

\* ((p OR q)) AND r has returned false on a record where p is true and r is
\* false, where p or (q and r) is true.
C3_Witness ==
  /\ called = "Test"
  /\ input.shape = "GroupOrAnd"
  /\ record # Nil
  /\ input.depth = 2
  /\ Returned(P, TRUE) /\ Returned(R, FALSE)
  /\ Returned(result, FALSE)

\* The expressions of a tree: the expression and those of its groups.
RECURSIVE SubExprs(_)
SubExprs(e) ==
  {e} \cup UNION { UNION { IF Deref(e.Or[i]).And[j] # Nil
                              /\ Deref(Deref(e.Or[i]).And[j]).Nested # Nil
                           THEN SubExprs(Deref(Deref(Deref(e.Or[i]).And[j]).Nested))
                           ELSE {}
                           : j \in 1..Len(Deref(e.Or[i]).And) }
                   : i \in 1..Len(e.Or) }

\* The AND-terms of a tree.
SubTerms(e) == UNION { {Deref(x.Or[i]) : i \in 1..Len(x.Or)} : x \in SubExprs(e) }

\* What each element of a loop returns on its own, the first element that
\* is not (stop, nil) counted from 1 (0 if none), and the fields looked up
\* by the first k elements.
TermResults(e) == [i \in 1..Len(e.Or) |-> OrConditionEval(e.Or[i], Ctx)]
ConditionResults(t) == [j \in 1..Len(t.And) |-> ConditionEval(t.And[j], Ctx)]
FirstNot(rs, b) ==
  IF \A i \in 1..Len(rs) : Returned(rs[i], b) THEN 0
  ELSE CHOOSE i \in 1..Len(rs) :
         /\ ~Returned(rs[i], b)
         /\ \A h \in 1..(i - 1) : Returned(rs[h], b)
RECURSIVE SeenUpTo(_, _)
SeenUpTo(rs, k) == IF k = 0 THEN <<>> ELSE SeenUpTo(rs, k - 1) \o rs[k].seen

\* C4: Expression.Eval returns (true, nil) at the first OR-term that is
\* true when every term before it was false without error, and evaluates
\* no term after it, whatever that term would return.
C4_OrShortCircuit ==
  (Evaluated /\ matcher # Nil) =>
    /\ \A e \in SubExprs(Tree) :
         LET rs == TermResults(e)
             k == FirstNot(rs, FALSE)
             r == ExpressionEval(Ptr(e), Ctx)
         IN  (k > 0 /\ Returned(rs[k], TRUE))
               => Returned(r, TRUE) /\ r.seen = SeenUpTo(rs, k)
    /\ result = ExpressionEval(Ptr(Tree), Ctx)

\* p OR q OR r has returned true on a record where p is true and q on its
\* own is an error, and only the field of p was looked up.
C4_Witness ==
  /\ called = "Test"
  /\ input.shape = "OrOr"
  /\ record # Nil
  /\ Returned(P, TRUE) /\ Failed(Q)
  /\ Returned(result, TRUE)
  /\ result.seen = <<FieldA>>

\* C5: Expression.Eval returns the error of the first OR-term that fails,
\* wrapped, when every term before it was false, and evaluates no term
\* after it; it returns (false, nil) only if every term returned
\* (false, nil).
C5_OrFailFast ==
  (Evaluated /\ matcher # Nil) =>
    /\ \A e \in SubExprs(Tree) :
         LET rs == TermResults(e)
             k == FirstNot(rs, FALSE)
             r == ExpressionEval(Ptr(e), Ctx)
         IN  /\ (k > 0 /\ Failed(rs[k]))
                  => /\ ~r.panic /\ ~r.b
                     /\ r.err = Wrap("evaluating OR condition", rs[k].err)
                     /\ r.seen = SeenUpTo(rs, k)
             /\ Returned(r, FALSE) <=> k = 0
    /\ result = ExpressionEval(Ptr(Tree), Ctx)

\* p OR q OR r has returned the error of q on a record where p is false and
\* r on its own is true, and the field of r was not looked up.
C5_Witness ==
  /\ called = "Test"
  /\ input.shape = "OrOr"
  /\ record # Nil
  /\ Returned(P, FALSE) /\ Failed(Q) /\ Returned(R, TRUE)
  /\ Failed(result)
  /\ result.err = Wrap("evaluating OR condition",
                       Wrap("evaluating AND condition", Q.err))
  /\ result.seen = <<FieldA, FieldB>>

\* C6: OrCondition.Eval returns (false, nil) at the first condition that is
\* false and the wrapped error of the first that fails, when every
\* condition before it was true, and evaluates no condition after it; it
\* returns (true, nil) only if every condition returned (true, nil).
C6_AndReduction ==
  (Evaluated /\ matcher # Nil) =>
    \A t \in SubTerms(Tree) :
      LET cs == ConditionResults(t)
          k == FirstNot(cs, TRUE)
          r == OrConditionEval(Ptr(t), Ctx)
      IN  /\ (k > 0 /\ Returned(cs[k], FALSE))
               => Returned(r, FALSE) /\ r.seen = SeenUpTo(cs, k)
          /\ (k > 0 /\ Failed(cs[k]))
               => /\ ~r.panic /\ ~r.b
                  /\ r.err = Wrap("evaluating AND condition", cs[k].err)
                  /\ r.seen = SeenUpTo(cs, k)
          /\ Returned(r, TRUE) <=> k = 0

\* p AND q AND r has returned (false, nil) on a record where p is false and
\* q on its own is an error, and only the field of p was looked up.
C6_Witness ==
  /\ called = "Test"
  /\ input.shape = "AndAnd"
  /\ record # Nil
  /\ Returned(P, FALSE) /\ Failed(Q)
  /\ Returned(result, FALSE)
  /\ result.seen = <<FieldA>>

\* The query is one predicate, and the record has its field.
TheField == input.preds[1].f
SingleOnField == input.shape = "single" /\ record # Nil /\ TheField \in DOMAIN Ctx
TheOp == input.preds[1].op
TheLit == input.preds[1].lit
TheValue == Ctx[TheField]

\* The relation an operator text names, on numbers m and n.
Holds(op, m, n) ==
  \/ op = <<"=">> /\ m = n
  \/ op \in {<<"<", ">">>, <<"!", "=">>} /\ m # n
  \/ op = <<">">> /\ m > n
  \/ op = <<">", "=">> /\ m >= n
  \/ op = <<"<">> /\ m < n
  \/ op = <<"<", "=">> /\ m <= n

\* C7: a float64 field compared with a number literal by any of the seven
\* operators returns the numeric relation and no error.
C7_Float64Numeric ==
  (Evaluated /\ SingleOnField /\ TheLit.kind = "number" /\ TheValue.kind = "float64")
    => Returned(result, Holds(TheOp, TheValue.num, TheLit.num))

\* a >= 1 has returned true on a record whose a is the float64 1.
C7_Witness ==
  /\ called = "Test"
  /\ IsSingle(<<">", "=">>, "number")
  /\ record # Nil /\ TheField \in DOMAIN Ctx
  /\ TheValue = GoNum("float64", 1) /\ TheLit.num = 1
  /\ Returned(result, TRUE)

\* C8: a field of any Go numeric kind compared with a number literal
\* returns the numeric relation with a nil error and no panic, and the
\* README example returns (true, nil).
C8_AnyNumericKind ==
  /\ (Evaluated /\ SingleOnField /\ TheLit.kind = "number" /\ TheValue.kind \in NumKinds)
       => Returned(result, Holds(TheOp, TheValue.num, TheLit.num))
  /\ (Evaluated /\ input.text = ReadmeQuery) => Returned(result, TRUE)

\* The other spelling of an inequality operator.
OtherNe(op) == IF op = <<"<", ">">> THEN <<"!", "=">> ELSE <<"<", ">">>

\* C9: <> and != return the same on every literal and present field value,
\* and the negation of what = returns: the opposite boolean where = returns
\* one, an error where = returns an error.
C9_InequalityNegatesEquality ==
  (Evaluated /\ SingleOnField /\ TheOp \in {<<"<", ">">>, <<"!", "=">>})
    => LET eq == Alone(Pred(TheField, <<"=">>, TheLit), Ctx)
           other == Alone(Pred(TheField, OtherNe(TheOp), TheLit), Ctx)
       IN  /\ other.b = result.b /\ other.panic = result.panic
           /\ (other.err = NoError) = (result.err = NoError)
           /\ Ok(eq) => Returned(result, ~eq.b)
           /\ Failed(eq) => Failed(result)
           /\ eq.panic => result.panic

\* a != /x/ has returned false on a record whose a is "ax", where a = /x/
\* returns true; and a <> TRUE has failed on the string "x", as a = TRUE does.
C9_Witness ==
  /\ called = "Test"
  /\ input.shape = "single"
  /\ record # Nil /\ TheField \in DOMAIN Ctx
  /\ \/ /\ TheOp = <<"!", "=">> /\ TheLit = RegexLit(<<"x">>)
        /\ TheValue = GoString(<<"a", "x">>)
        /\ Returned(result, FALSE)
        /\ Returned(Alone(Pred(TheField, <<"=">>, TheLit), Ctx), TRUE)
     \/ /\ TheOp = <<"<", ">">> /\ TheLit = BoolLit(TRUE)
        /\ TheValue = GoString(<<"x">>)
        /\ Failed(result)
        /\ Failed(Alone(Pred(TheField, <<"=">>, TheLit), Ctx))

\* Whether string s matches the pattern of a regex literal, told from the
\* pattern's meaning: x occurs in s, s is exactly x.
Contains(s, t) ==
  \E i \in 0..(Len(s) - Len(t)) : SubSeq(s, i + 1, i + Len(t)) = t
Matches(pat, s) ==
  CASE pat = <<"x">> -> Contains(s, <<"x">>)
    [] pat = <<"^", "x", "$">> -> s = <<"x">>

\* C10: with a regex literal, = on a string field is true iff the pattern
\* matches somewhere in the string, != and <> are true iff it does not,
\* and on a field that is not a string each of the three is an error.
C10_RegexMatch ==
  (Evaluated /\ SingleOnField /\ TheLit.kind = "regex"
     /\ TheOp \in {<<"=">>, <<"<", ">">>, <<"!", "=">>})
    => IF TheValue.kind = "string"
       THEN Returned(result, (TheOp = <<"=">>) = Matches(TheLit.str, TheValue.str))
       ELSE /\ Failed(result)
            /\ result.err =
                 Wrap("evaluating OR condition",
                      Wrap("evaluating AND condition",
                           Errorf("cannot apply regex to non-string value")))

\* a = /x/ has returned true on the string "ax" and a = /^x$/ false on it,
\* and a = /x/ has failed on a float64.
C10_Witness ==
  /\ called = "Test"
  /\ IsSingle(<<"=">>, "regex")
  /\ record # Nil /\ TheField \in DOMAIN Ctx
  /\ \/ /\ TheLit.str = <<"x">> /\ TheValue = GoString(<<"a", "x">>)
        /\ Returned(result, TRUE)
     \/ /\ TheLit.str = <<"^", "x", "$">> /\ TheValue = GoString(<<"a", "x">>)
        /\ Returned(result, FALSE)
     \/ /\ TheValue.kind = "float64" /\ Failed(result)

\* The query is a = /pattern/; its pattern as written between the slashes,
\* and the number of characters left when each \/ is read as /.
IsRegexQuery == input.shape = "regex"
Written == input.preds[1].lit.str
EscapedSlashes ==
  Cardinality({i \in 1..(Len(Written) - 1) : Written[i] = "\\" /\ Written[i + 1] = "/"})
UnescapedLen == Len(Written) - EscapedSlashes
Rejected == matcher = Nil /\ err # NoError

\* C11: NewMatcher returns an error and no matcher for a regex literal whose
\* unescaped pattern is longer than 1000 characters, and a pattern of
\* exactly 1000 characters passes the length check (and compiles when the
\* compile is delivered in time).
C11_PatternLengthLimit ==
  IsRegexQuery =>
    /\ UnescapedLen > MaxRegexPatternLength => Rejected
    /\ UnescapedLen = MaxRegexPatternLength =>
         /\ RegexCapture(Slashed(Written), TRUE).err # Errorf("regex pattern too long")
         /\ RegexCapture(Slashed(Written), FALSE).err = NoError
         /\ err = NoError \/ err = <<"parse error", "unexpected token">>

\* NewMatcher has rejected a literal of 1002 written characters that
\* unescape to 1001.
C11_Witness ==
  /\ called = "NewMatcher"
  /\ IsRegexQuery
  /\ EscapedSlashes = 1
  /\ UnescapedLen = MaxRegexPatternLength + 1
  /\ Rejected

\* The number of occurrences in the written pattern of the characters in set.
Occurrences(set) == Cardinality({i \in 1..Len(Written) : Written[i] \in set})
Score == Occurrences({"*", "+", "{", "?", "|"})
ScoreWithBraces == Occurrences({"*", "+", "{", "}", "?", "|"})

\* The compile of the query was delivered within the deadline.
InTime == matcher # Nil \/ RegexCapture(Slashed(Written), FALSE).err # NoError

\* C12 as stated: the score counts * + { } ? | and NewMatcher fails for every
\* regex literal whose score exceeds 20, eleven {3} quantifiers included.
C12_ScoreCountsBraces ==
  (IsRegexQuery /\ ScoreWithBraces > MaxRegexComplexity) => Rejected

\* C12: the score counts the occurrences of * + { ? | ("}" is not counted);
\* NewMatcher fails for every regex literal whose score exceeds 20, and a
\* pattern within the length limit whose score is at most 20 is accepted
\* when it compiles in time: eleven {3} quantifiers score 11.
C12_ComplexityLimit ==
  (IsRegexQuery /\ UnescapedLen <= MaxRegexPatternLength) =>
    /\ Score > MaxRegexComplexity => Rejected
    /\ Score <= MaxRegexComplexity =>
         /\ RegexCapture(Slashed(Written), TRUE).err # Errorf("regex pattern too complex")
         /\ RegexCapture(Slashed(Written), FALSE).err = NoError
         /\ InTime => matcher # Nil /\ err = NoError

\* NewMatcher has accepted the pattern of eleven a{3}, which holds 22 of the
\* characters * + { } ? | and 11 of * + { ? |.
C12_Witness ==
  /\ called = "NewMatcher"
  /\ IsRegexQuery
  /\ Written = Repeat(<<"a", "{", "3", "}">>, 11)
  /\ ScoreWithBraces = 22 /\ Score = 11
  /\ matcher # Nil /\ err = NoError

\* Capture has returned to the parser.
CaptureReturned == caller \in {"delivered", "timed out", "rejected"}

\* C13: RegexVal.Capture always returns to the parser: with what the worker
\* delivered (the compiled regex, or a compile error that fails the parse)
\* or, only once the deadline has elapsed, with a timeout error that fails
\* the parse; it returns whether or not the worker ever delivers.
C13_CaptureReturns ==
  /\ [](caller = "timed out" =>
          /\ deadline = "elapsed" /\ worker # "done"
          /\ called = "NewMatcher" => Rejected)
  /\ [](caller = "delivered" =>
          /\ worker = "done" /\ delivery # Nil
          /\ called = "NewMatcher" =>
               IF Deref(delivery).err = NoError
               THEN matcher # Nil /\ err = NoError
               ELSE Rejected)
  /\ <>CaptureReturned
  /\ (deadline = "elapsed") ~> CaptureReturned

\* Capture has returned the timeout error while the worker was still
\* compiling.
C13_Witness ==
  /\ caller = "timed out"
  /\ worker = "compiling"
  /\ called = "NewMatcher"
  /\ Rejected

\* The number of predicates in an expression, through its groups.
RECURSIVE LeavesOfExpression(_), LeavesOfTerms(_), LeavesOfConditions(_)
LeavesOfConditions(cs) ==
  IF cs = <<>> THEN 0
  ELSE (IF Deref(Head(cs)).Nested # Nil
        THEN LeavesOfExpression(Deref(Deref(Head(cs)).Nested)) ELSE 0)
       + (IF Deref(Head(cs)).Predicate # Nil THEN 1 ELSE 0)
       + LeavesOfConditions(Tail(cs))
LeavesOfTerms(ts) ==
  IF ts = <<>> THEN 0
  ELSE LeavesOfConditions(Deref(Head(ts)).And) + LeavesOfTerms(Tail(ts))
LeavesOfExpression(e) == LeavesOfTerms(e.Or)

\* The number of predicates the query is written with.
WrittenPredicates ==
  CASE input.shape \in {"single", "regex"} -> 1
    [] input.shape = "NestedGroups" -> 4
    [] input.shape = "text" -> IF input.text = ReadmeQuery THEN 3 ELSE 0
    [] OTHER -> 3

\* C14: NewMatcher is all-or-nothing: the empty query and every query that
\* does not lex or parse, a rejected regex literal included, give a nil
\* matcher with a non-nil error; a matcher is returned only with a nil
\* error and holds every predicate of the query.
C14_AllOrNothing ==
  called = "NewMatcher" =>
    /\ (matcher = Nil) <=> (err # NoError)
    /\ query = <<>> => Rejected /\ err = Errorf("empty query string")
    /\ (input.shape = "text" /\ input.text \in BadQueries) => Rejected
    /\ (IsRegexQuery /\ (TooLong(UnescapeSlash(Written)) \/ TooComplex(UnescapeSlash(Written))))
         => Rejected
    /\ matcher # Nil =>
         /\ err = NoError
         /\ LeavesOfExpression(Tree) = WrittenPredicates
         /\ SingleParsed

\* NewMatcher has returned nil and an error for a query whose group is not
\* closed.
C14_Witness ==
  /\ called = "NewMatcher"
  /\ query = <<"(", "a", " ", "=", " ", "1">>
  /\ Rejected

Cancellations == {"context canceled", "context deadline exceeded"}

\* C15: TestWithContext with a context returns the context's error, with no
\* predicate evaluated, iff the context is cancelled or expired when the
\* select looks at it; otherwise it returns what Test returns for the
\* matcher and record, also when the context is cancelled during the walk.
C15_CancellationAtEntryOnly ==
  (called = "TestWithContext" /\ signal # "nil") =>
    /\ signal \in Cancellations =>
         /\ result = Unseen(Return(FALSE, Errorf(signal)))
         /\ result.seen = <<>>
    /\ signal = "live" =>
         /\ result = MatcherTest(Deref(matcher), record)
         /\ \A e \in Cancellations : result.err # Errorf(e)

\* TestWithContext has walked the tree and returned true with a context
\* that was cancelled after the select.
C15_Witness ==
  /\ called = "TestWithContext"
  /\ signal = "live"
  /\ during = "context canceled"
  /\ result.seen # <<>>
  /\ Returned(result, TRUE)

\* The last call evaluated the matcher against record.
OnRecord == called = "Test" \/ (called = "TestWithContext" /\ signal = "live")

\* C16: Test and TestWithContext change neither the matcher (its tree and
\* compiled regexes) nor the record, and every evaluation against record,
\* whatever was evaluated before it, has the outcome of the first one.
C16_NoHiddenState ==
  /\ [][matcher' = matcher /\ record' = record]_vars
  /\ [](OnRecord => history.first # Nil /\ result = Deref(history.first))

\* Test has returned true on record again, after the matcher was run on
\* record and then on another record, where it returned false.
C16_Witness ==
  /\ called = "Test"
  /\ history.first # Nil
  /\ history.other
  /\ Returned(result, TRUE)
  /\ Returned(MatcherTest(Deref(matcher), Ptr(<<>>)), FALSE)

\* The tree of p OR q AND r and of p AND q OR r, from the predicates.
TermOf(ps) == Ptr(OrCondition([k \in DOMAIN ps |-> Ptr(Condition(Nil, PredNode(ps[k])))]))
CompiledTree ==
  IF input.shape = "OrAnd"
  THEN Expression(<<TermOf(<<input.preds[1]>>), TermOf(<<input.preds[2], input.preds[3]>>)>>)
  ELSE Expression(<<TermOf(<<input.preds[1], input.preds[2]>>), TermOf(<<input.preds[3]>>)>>)

\* What caller i's call returns when it runs alone on the compiled query.
AloneOutcome(i) ==
  Walk([Expression |-> CompiledTree, Debug |-> FALSE], calls[i].kind, calls[i].rec)

\* C17: in every interleaving of concurrent Test and TestWithContext calls
\* on one Matcher, a step of a call changes nothing but that call's own
\* locals, and each call returns what it returns when it runs alone.
C17_ConcurrentSafe ==
  /\ [][/\ matcher' = matcher
        /\ \A i \in Callers : calls'[i].rec = calls[i].rec
        /\ \A i, j \in Callers :
             (calls'[i] # calls[i] /\ calls'[j] # calls[j]) => i = j]_vars
  /\ []((\A i \in Callers : calls[i].pc = "idle") => Tree = CompiledTree)
  /\ [](\A i \in Callers :
          calls[i].pc = "returned" => calls[i].out = AloneOutcome(i))

\* A call has walked two predicates and returned true while a call on
\* another record is between its first and its second lookup.
C17_Witness ==
  /\ calls # <<>>
  /\ calls[1].pc = "returned"
  /\ Returned(calls[1].out, TRUE) /\ Len(calls[1].out.seen) > 1
  /\ calls[2].pc = "walking" /\ Len(calls[2].trace) = 1
  /\ calls[2].rec # calls[1].rec

\* The number of populated variants of a Value.
Variants(v) ==
  Cardinality({k \in {"Float", "String", "Regex", "Boolean"} : v[k] # Nil})
    + (IF v.Null THEN 1 ELSE 0)

WellFormedValue(v) ==
  /\ Variants(v) = 1
  /\ v.Regex # Nil => Deref(v.Regex).Regexp # Nil

WellFormedPredicate(p) ==
  /\ p.Compare # Nil
  /\ Deref(p.Compare).Value # Nil
  /\ WellFormedValue(Deref(Deref(p.Compare).Value))

RECURSIVE WellFormedExpression(_)
WellFormedExpression(e) ==
  /\ Len(e.Or) >= 1
  /\ \A i \in DOMAIN e.Or :
       /\ Len(Deref(e.Or[i]).And) >= 1
       /\ \A j \in DOMAIN Deref(e.Or[i]).And :
            LET c == Deref(Deref(e.Or[i]).And[j]) IN
            /\ (c.Nested # Nil) # (c.Predicate # Nil)
            /\ c.Nested # Nil => WellFormedExpression(Deref(c.Nested))
            /\ c.Predicate # Nil => WellFormedPredicate(Deref(c.Predicate))

\* C18: in every Matcher NewMatcher returns, each Expression has an OR-term
\* and each OR-term a Condition, each Condition is a group or a predicate
\* and not both, each Value has exactly one of its five variants, and each
\* regex Value holds a compiled regexp; a regex literal whose compile
\* failed or timed out is in no returned Matcher.
C18_TreeWellFormed ==
  /\ matcher # Nil => WellFormedExpression(Tree)
  /\ (IsRegexQuery /\ matcher # Nil) =>
       /\ RegexpCompile(UnescapeSlash(Written)).err = NoError
       /\ err = NoError

\* NewMatcher has returned a Matcher whose tree holds a regex literal inside
\* a group nested in parentheses more than once.
C18_Witness ==
  /\ called = "NewMatcher"
  /\ matcher # Nil
  /\ input.shape = "GroupOrAnd"
  /\ input.depth > 1
  /\ input.preds[1].lit.kind = "regex"
  /\ WellFormedExpression(Tree)

OrderingOperators == { <<">">>, <<">", "=">>, <<"<">>, <<"<", "=">> }

\* The ordering an operator text names, on strings s and t.
LexHolds(op, s, t) ==
  \/ op = <<">">> /\ StrLess(t, s)
  \/ op = <<">", "=">> /\ (StrLess(t, s) \/ s = t)
  \/ op = <<"<">> /\ StrLess(s, t)
  \/ op = <<"<", "=">> /\ (StrLess(s, t) \/ s = t)

\* C19: with a string literal and an ordering operator, a string field is
\* compared lexicographically with the literal, and a present boolean
\* field makes Eval return an error, with no panic.
C19_StringOrdering ==
  (Evaluated /\ SingleOnField /\ TheLit.kind = "string" /\ TheOp \in OrderingOperators)
    => /\ TheValue.kind = "string" =>
            Returned(result, LexHolds(TheOp, TheValue.str, TheLit.str))
       /\ TheValue.kind = "bool" => Failed(result)

\* C20: with a boolean literal and =, a numeric field of any kind, float64
\* included, returns whether (field is not 0) equals the literal, a boolean
\* field returns whether it equals the literal, and a string field is
\* parsed as a boolean and compared, with an error iff it does not parse.
C20_BooleanLiteralEquality ==
  (Evaluated /\ SingleOnField /\ TheLit.kind = "boolean" /\ TheOp = <<"=">>)
    => /\ TheValue.kind \in NumKinds =>
            Returned(result, (TheValue.num # 0) = TheLit.bool)
       /\ TheValue.kind = "bool" => Returned(result, TheValue.bool = TheLit.bool)
       /\ TheValue.kind = "string" =>
            IF TheValue.str \in ParseBoolTrue \cup ParseBoolFalse
            THEN Returned(result, (TheValue.str \in ParseBoolTrue) = TheLit.bool)
            ELSE Failed(result)

\* C21: with an ordering operator, a regex literal and a boolean literal
\* return an error for a present field of every kind, and a number literal
\* returns an error for a boolean field.
C21_OrderingUnsupported ==
  (Evaluated /\ SingleOnField /\ TheOp \in OrderingOperators)
    => /\ TheLit.kind \in {"regex", "boolean"} => Failed(result)
       /\ (TheLit.kind = "number" /\ TheValue.kind = "bool") => Failed(result)

\* a >= /x/ has returned an error on a record whose a is the string x,
\* which the pattern matches.
C21_Witness ==
  /\ called = "Test"
  /\ IsSingle(<<">", "=">>, "regex")
  /\ record # Nil /\ TheField \in DOMAIN Ctx
  /\ TheValue = GoString(<<"x">>)
  /\ Failed(result)

\* The error at the bottom of an error's chain of wrappers.
Cause(e) == <<e[Len(e)]>>

C23_UnknownOperatorSentinel ==
  (called = "Predicate.Eval" /\ input.preds[1].f \in DOMAIN Ctx
     /\ input.preds[1].op \in UnknownOperators)
    => /\ Failed(result)
       /\ ErrorsIs(result.err, ErrInvalidOperator)

\* C24: on a present field whose value is no number, string or boolean (a
\* nil, a slice), a comparison with a literal of any kind by any operator
\* returns an error: no result with a nil error and no panic.
C24_UncoveredPairingsFail ==
  (Evaluated /\ SingleOnField /\ TheValue.kind \in {"nil", "slice"})
    => Failed(result)

\* The RegexVal in the tree of a query of one predicate.
StoredPredicate == Deref(Deref(Deref(Tree.Or[1]).And[1]).Predicate)
StoredValue == Deref(Deref(StoredPredicate.Compare).Value)
StoredRegex == Deref(StoredValue.Regex)

\* What a written pattern is with its escaped slashes as slashes.
SlashesOf(w) ==
  CASE w = <<"x", "\\", "/", "y">> -> <<"x", "/", "y">>
    [] w = <<"\\", "/", "x", "\\", "/">> -> <<"/", "x", "/">>

\* C25: a regex literal runs to the first slash that no backslash
\* precedes, and each \/ in it is a plain slash in the pattern that is
\* checked, stored and compiled: a = /x\/y/ is one literal, it matches the
\* string x/y and does not match x\y; a = /x/y/ does not compile.
C25_EscapedSlash ==
  /\ (IsRegexQuery /\ Written \in SlashPatterns) =>
       /\ Lex(query).tokens[Len(Lex(query).tokens)] = Token("Regex", Slashed(Written))
       /\ InTime => matcher # Nil
       /\ matcher # Nil =>
            /\ StoredRegex.Pattern = SlashesOf(Written)
            /\ StoredRegex.Regexp = RegexpCompile(SlashesOf(Written)).re
       /\ (Evaluated /\ SingleOnField /\ TheValue.kind = "string") =>
            Returned(result, Contains(TheValue.str, SlashesOf(Written)))
  /\ (IsRegexQuery /\ matcher # Nil) => Len(StoredRegex.Pattern) = UnescapedLen
  /\ query = <<"a", " ", "=", " ", "/", "x", "/", "y", "/">> => Rejected

\* a = /x\/y/ has returned true on a record whose a is the string x/y.
C25_Witness ==
  /\ called = "Test"
  /\ IsRegexQuery
  /\ Written = <<"x", "\\", "/", "y">>
  /\ record = Ptr([f \in {FieldA} |-> GoString(<<"x", "/", "y">>)])
  /\ Returned(result, TRUE)

\* C26: a query "name op literal" whose field name matches
\* [A-Za-z_][A-Za-z0-9_]* and is not a keyword in any case is lexed with the
\* name as one Ident token, and compiles.
IsKeyword(name) == \E k \in 1..Len(Keywords) : EqualFold(name, Keywords[k])
C26_NamesAreIdentifiers ==
  (input.shape = "named" /\ ~IsKeyword(TheField))
    => /\ Lex(query).tokens[1] = Token("Ident", TheField)
       /\ Len(Lex(query).tokens) = 3
       /\ matcher # Nil /\ err = NoError

\* C27: a query whose AND and OR are written in another letter case compiles
\* to the same tree as the query with the keywords in upper case, with the
\* same error, and returns the same outcome on every record.
IsCased == input.shape \in CasedShapes /\ input.text # <<>>
UpperCased == QueryText([input EXCEPT !.text = <<>>])
SameAs(r) ==
  /\ matcher = r.m
  /\ err = r.err
  /\ Evaluated => result = MatcherTest(Deref(r.m), record)
C27_KeywordCaseIgnored ==
  IsCased =>
    /\ query # UpperCased
    /\ matcher # Nil
    /\ SameAs(NewMatcherResult(UpperCased, FALSE))
C27_Witness ==
  /\ IsCased /\ called = "Test" /\ record # Nil
  /\ input.shape = "AndOr"
  /\ query = Recase(UpperCased, {"A", "N", "D", "O", "R"})
  /\ Returned(result, TRUE)

\* C28: in every execution of Capture the worker goroutine it started ends;
\* none stays blocked in its send, whether the result or the deadline came
\* first.
C28_WorkerTerminates == [](worker # "none" => <>(worker = "done"))

\* C29: at every level (Predicate.Eval, Condition.Eval, OrCondition.Eval,
\* Expression.Eval, Matcher.Test, Matcher.TestWithContext) a call that
\* returns an error returns false with it, also for a nil record and for a
\* nil or finished context.
Levels ==
  {"Predicate.Eval", "Condition.Eval", "OrCondition.Eval", "Expression.Eval", "Test",
   "TestWithContext"}
C29_NoPartialResult ==
  (called \in Levels /\ Failed(result)) => ~result.b
C29_Witness ==
  /\ called = "OrCondition.Eval" /\ input.shape = "guarded"
  /\ record # Nil /\ TheField \in DOMAIN Ctx
  /\ TheValue = GoNum("float64", 1) /\ TheLit.kind = "regex"
  /\ Failed(result) /\ ~result.b
  /\ result.seen = <<FieldA, FieldA>>

\* C30: a number literal against a string field is compared as text with
\* the literal written with six decimals: = holds only for that very text
\* (f = 1 is false, without error, for "1" and "1.0"), and the ordering
\* operators compare bytewise (f > 9 is false for "10"); the field's text
\* is not parsed as a number.
SixDecimals(n) == Itoa(n) \o <<".", "0", "0", "0", "0", "0", "0">>
C30_NumberAgainstString ==
  (Evaluated /\ SingleOnField /\ TheLit.kind = "number" /\ TheValue.kind = "string")
    => /\ TheOp = <<"=">> => Returned(result, TheValue.str = SixDecimals(TheLit.num))
       /\ TheOp \in OrderingOperators =>
            Returned(result, LexHolds(TheOp, TheValue.str, SixDecimals(TheLit.num)))
       /\ (TheOp = <<"=">> /\ TheLit.num = 1 /\ TheValue.str \in {<<"1">>, <<"1", ".", "0">>})
            => Returned(result, FALSE)
       /\ (TheOp = <<">">> /\ TheLit.num = 9 /\ TheValue.str = <<"1", "0">>)
            => Returned(result, FALSE)
       /\ (TheOp = <<"<">> /\ TheLit.num = 9 /\ TheValue.str = <<"1", "0">>)
            => Returned(result, TRUE)
C30_Witness ==
  /\ called = "Test" /\ IsSingle(<<">">>, "number") /\ record # Nil
  /\ TheField \in DOMAIN Ctx
  /\ TheLit.num = 9 /\ TheValue = GoString(<<"1", "0">>)
  /\ Returned(result, FALSE)

====
